---- MODULE Spec2Model ----
(***************************************************************************)
(* Provisioning orchestrator and configuration store of vps-setup.         *)
(*                                                                         *)
(* The module models                                                       *)
(*   - AnsibleRunner.parseOutput and AnsibleRunner.run (the runner),       *)
(*   - PersistenceManager and the schemas of validate.ts (the store),      *)
(*   - provisionServer and provisionAllServers (the setup command),        *)
(* and states the properties of the specification as formulas over them.   *)
(*                                                                         *)
(* Five specifications are defined.  ParseSpec applies parseOutput to      *)
(* every text of a bounded set, TagsSpec builds the --tags argument of a   *)
(* run, HistorySpec applies getHistory to every log of a bounded set, and  *)
(* StoreSpec applies the operations of PersistenceManager and the commands *)
(* that create and edit servers and profiles to the stores that can be     *)
(* found on disk.  Spec is the setup command running against the store,    *)
(* with the operator's other commands (server add, delete, history         *)
(* --clear) arriving at any moment, also while a run is waiting for the    *)
(* remote shell or the tool: the store is a directory on disk and is not   *)
(* locked.  Spec knows of a file only whether getServer accepts it;        *)
(* StoreSpec keeps the record written in it.                               *)
(*                                                                         *)
(* The interactive menu (cli/commands/config.ts setupFlow) is presentation *)
(* code and is not part of the model.  Of a HistoryEntry the fields        *)
(* duration and output are not modelled.                                   *)
(***************************************************************************)
EXTENDS Integers, Sequences, FiniteSets, TLC

(***************************************************************************)
(* Bounds                                                                  *)
(***************************************************************************)

\* longest tool report, in lines, that ParseSpec enumerates
MaxOutLen == 3

\* longest history log, in lines, that HistorySpec enumerates
MaxLogLen == 3

\* operations StoreSpec carries out on a store
MaxCalls == 1

\* last reading of the clock in RunnerSpec
MaxClock == 1

\* invocations of the setup command in one behaviour
MaxRuns == 1

\* other commands of the operator (and damaged files) in one behaviour
MaxOps == 2

(***************************************************************************)
(* The tool's report as text                                               *)
(*                                                                         *)
(* A text is a sequence of lines joined by "\n"; a text that ends in a     *)
(* newline has an empty line as its last element.  Lines are kept at the   *)
(* granularity the regular expressions of parseOutput distinguish:         *)
(*   recap  "PLAY RECAP *****"                                             *)
(*   head   "PLAY RECAP"             (no asterisks on the line)            *)
(*   stars  "*****"                                                        *)
(*   blank  ""                                                             *)
(*   text   any other line without a counter, e.g. "TASK [docker]"         *)
(*   host   "web : ok=2 changed=1 unreachable=0 failed=0", where each of   *)
(*          the four counters may be missing (NA)                          *)
(***************************************************************************)

NA == -1

Ln(k) == [k |-> k, ok |-> NA, changed |-> NA, unreachable |-> NA, failed |-> NA]

HostLn(o, c, u, f) == [k |-> "host", ok |-> o, changed |-> c, unreachable |-> u, failed |-> f]

\* the texts of up to MaxOutLen lines
Texts ==
    LET lines == {Ln("recap"), Ln("head"), Ln("stars"), Ln("blank"), Ln("text")}
                 \cup {HostLn(2, 1, u, f) : u \in {NA, 0, 1}, f \in {NA, 0, 1}}
                 \cup {HostLn(NA, 0, 0, 0)}
    IN  UNION {[1..m -> lines] : m \in 0..MaxOutLen}

IsBlank(l) == l.k = "blank"

\* index of the first line after line j that is not empty, Len(o)+1 if none:
\* where a greedy \s* that starts at the end of line j stops
FirstNonBlankAfter(o, j) ==
    IF \E m \in (j+1)..Len(o) : ~IsBlank(o[m])
    THEN CHOOSE m \in (j+1)..Len(o) :
            /\ ~IsBlank(o[m])
            /\ \A x \in (j+1)..(m-1) : IsBlank(o[x])
    ELSE Len(o) + 1

\* /PLAY RECAP\s*\*+/ tried at line i: the line on which the asterisks end,
\* 0 when the pattern does not match there
StarsEnd(o, i) ==
    IF o[i].k = "recap" THEN i
    ELSE IF o[i].k = "head"
         THEN LET m == FirstNonBlankAfter(o, i)
              IN  IF m <= Len(o) /\ o[m].k = "stars" THEN m ELSE 0
         ELSE 0

\* /PLAY RECAP\s*\*+\s*\n/ matches at line i: a newline follows the asterisks
MarkerAt(o, i) == StarsEnd(o, i) > 0 /\ StarsEnd(o, i) < Len(o)

\* last line of the lazy capture ([\s\S]*?)(?:\n\n|$) that starts at line m
RecapEnd(o, m) ==
    CHOOSE q \in m..Len(o) :
        /\ q = Len(o) \/ (IsBlank(o[q+1]) /\ q + 2 <= Len(o))
        /\ \A x \in m..(q-1) : ~(IsBlank(o[x+1]) /\ x + 2 <= Len(o))

NoMatch == <<Ln("nomatch")>>

\* output.match(/PLAY RECAP\s*\*+\s*\n([\s\S]*?)(?:\n\n|$)/): group 1 as
\* lines, NoMatch when the expression does not match
recapMatch(o) ==
    IF \E i \in 1..Len(o) : MarkerAt(o, i)
    THEN LET i == CHOOSE x \in 1..Len(o) :
                      MarkerAt(o, x) /\ \A y \in 1..(x-1) : ~MarkerAt(o, y)
             m == FirstNonBlankAfter(o, StarsEnd(o, i))
         IN  IF m > Len(o) THEN <<>> ELSE SubSeq(o, m, RecapEnd(o, m))
    ELSE NoMatch

\* recap.match(/<f>=(\d+)/) followed by parseInt, 0 when there is no match
Counter(recap, f) ==
    IF \E i \in 1..Len(recap) : recap[i].k = "host" /\ recap[i][f] # NA
    THEN LET i == CHOOSE x \in 1..Len(recap) :
                      /\ recap[x].k = "host" /\ recap[x][f] # NA
                      /\ \A y \in 1..(x-1) : ~(recap[y].k = "host" /\ recap[y][f] # NA)
         IN  recap[i][f]
    ELSE 0

ZeroResult == [success |-> FALSE, ok |-> 0, changed |-> 0, unreachable |-> 0, failed |-> 0]

parseOutput_FailedOnly(output) ==
    LET recap == recapMatch(output)
    IN  IF recap = NoMatch THEN ZeroResult
        ELSE [success     |-> Counter(recap, "failed") = 0,
              ok          |-> Counter(recap, "ok"),
              changed     |-> Counter(recap, "changed"),
              unreachable |-> Counter(recap, "unreachable"),
              failed      |-> Counter(recap, "failed")]

parseOutput(output) ==
    LET recap == recapMatch(output)
    IN  IF recap = NoMatch THEN ZeroResult
        ELSE [success     |-> Counter(recap, "failed") = 0 /\ Counter(recap, "unreachable") = 0,
              ok          |-> Counter(recap, "ok"),
              changed     |-> Counter(recap, "changed"),
              unreachable |-> Counter(recap, "unreachable"),
              failed      |-> Counter(recap, "failed")]

\* the state of ParseSpec
VARIABLES
    pText,      \* the text handed to parseOutput
    pResult,    \* what parseOutput returned, NoResult before the call
    pRaised     \* TRUE when the call raised instead of returning

pvars == <<pText, pResult, pRaised>>

(***************************************************************************)
(* The store: PersistenceManager                                           *)
(***************************************************************************)

Names == {"a", "b"}

NoTime == -1

\* servers/<name>.yml: st is "absent" (no file), "corrupt" (a file that
\* parseYaml or parseServer rejects) or "ok" (a file saveServer wrote)
AbsentFile == [st |-> "absent", host |-> "", createdAt |-> NoTime, lastProvisioned |-> NoTime]

ServerRec(h, c, l) == [st |-> "ok", host |-> h, createdAt |-> c, lastProvisioned |-> l]

\* profiles/<name>.yml of the three seed profiles, by component toggles
Components(d, p, c, n, v, b, s) ==
    [docker |-> d, php_fpm |-> p, caddy |-> c, nodejs |-> n, nvm |-> v, bun |-> b, security |-> s]

FULL_STACK_COMPONENTS == Components(TRUE, TRUE, TRUE, TRUE, FALSE, TRUE, TRUE)

MINIMAL_COMPONENTS == Components(TRUE, FALSE, FALSE, FALSE, FALSE, FALSE, TRUE)

SECURITY_ONLY_COMPONENTS == Components(FALSE, FALSE, FALSE, FALSE, FALSE, FALSE, TRUE)

ProfNames == {"full-stack", "minimal", "security-only", "custom"}

AbsentProfile == [st |-> "absent", components |-> Components(FALSE, FALSE, FALSE, FALSE, FALSE, FALSE, FALSE), runtimeUser |-> ""]

ProfileRec(c, u) == [st |-> "ok", components |-> c, runtimeUser |-> u]

\* createDefaultProfiles: the three profile files of an initialized store
SeedProfiles ==
    [n \in ProfNames |->
        CASE n = "full-stack" -> ProfileRec(FULL_STACK_COMPONENTS, "root")
          [] n = "minimal" -> ProfileRec(MINIMAL_COMPONENTS, "root")
          [] n = "security-only" -> ProfileRec(SECURITY_ONLY_COMPONENTS, "root")
          [] OTHER -> AbsentProfile]

\* profile names given to the setup command: a seed profile and a name with
\* no file; NoProfile is a fleet run without --profile
ProfileArgs == {"minimal", "custom"}

NoProfile == ""

VARIABLES
    servers,    \* [Names -> server file]
    history,    \* [Names -> sequence of HistoryEntry]; <<>> is "no log file"
    profiles,   \* [ProfNames -> profile file]
    tmpFiles,   \* the files under /tmp/vps-setup, each a [name, t] path
    runs,       \* invocations of the setup command so far
    ops         \* other commands of the operator so far

\* Date.now() / new Date(): the clock, read as the number of commands begun
\* so far; every command begins later than the ones before it
now == runs + ops

serverExists(name) == servers[name].st # "absent"

\* null is modelled by AbsentFile: a missing and a rejected file both give null
getServer(name) == IF servers[name].st = "ok" THEN servers[name] ELSE AbsentFile

IsNull(server) == server.st # "ok"

\* null is modelled by AbsentProfile
getProfile(name) ==
    IF name \in ProfNames /\ profiles[name].st = "ok" THEN profiles[name] ELSE AbsentProfile

\* the names in directory order (readdir returns them sorted)
listServers ==
    IF serverExists("a")
    THEN IF serverExists("b") THEN <<"a", "b">> ELSE <<"a">>
    ELSE IF serverExists("b") THEN <<"b">> ELSE <<>>

\* saveServer of a record that passes parseServer: whole-file replacement;
\* createdAt is stamped only when the record carries none
saveServer(srv, name, server) ==
    [srv EXCEPT ![name] =
        [server EXCEPT !.createdAt = IF server.createdAt = NoTime THEN now ELSE @]]

appendHistory_Replace(h, name, entry) == [h EXCEPT ![name] = <<entry>>]

\* writeFileSync(historyPath, line, { flag: "a" }): one line after the others
appendHistory(h, name, entry) == [h EXCEPT ![name] = Append(@, entry)]

HistoryEntry(t, name, profile, status, changes) ==
    [timestamp |-> t, server |-> name, profile |-> profile, status |-> status, changes |-> changes]

(***************************************************************************)
(* The runner: AnsibleRunner.run                                           *)
(***************************************************************************)

\* what the tool printed, as far as the setup command distinguishes it
OutEmpty == <<>>

\* nothing; a report cut before the recap; recaps with a change, without
\* one, with a failed task and with an unreachable host
ToolOutputs ==
    {OutEmpty,
     <<Ln("text")>>,
     <<Ln("text"), Ln("recap"), HostLn(2, 1, 0, 0)>>,
     <<Ln("recap"), HostLn(NA, 0, 0, 0), Ln("blank")>>,
     <<Ln("recap"), HostLn(2, 1, 0, 1)>>,
     <<Ln("recap"), HostLn(2, 1, 1, 0)>>}

NoPath == [name |-> "", t |-> NoTime]

\* join(tempDir, `provision_${server.name}_${Date.now()}.yml`)
ConfigFilePath(name, t) == [name |-> name, t |-> t]

NoRunResult ==
    [success |-> FALSE, ok |-> 0, changed |-> 0, unreachable |-> 0, failed |-> 0,
     output |-> OutEmpty, error |-> FALSE]

RunResult_ExitCodeIgnored(oc, stdout) ==
    LET parsed == parseOutput(stdout)
    IN  [success |-> parsed.success, ok |-> parsed.ok, changed |-> parsed.changed,
         unreachable |-> parsed.unreachable, failed |-> parsed.failed,
         output |-> stdout, error |-> oc # "exit0"]

RunResult_NoPartialParse(oc, stdout) ==
    LET parsed == IF oc = "exit0" THEN parseOutput(stdout) ELSE ZeroResult
    IN  [success |-> IF oc = "exit0" THEN parsed.success ELSE FALSE,
         ok |-> parsed.ok, changed |-> parsed.changed,
         unreachable |-> parsed.unreachable, failed |-> parsed.failed,
         output |-> stdout, error |-> oc # "exit0"]

\* the value run returns: the try block when execa resolved (exit code 0),
\* the catch block when writeFileSync or execa threw
RunResult(oc, stdout) ==
    LET parsed == parseOutput(stdout)
    IN  [success |-> IF oc = "exit0" THEN parsed.success ELSE FALSE,
         ok |-> parsed.ok, changed |-> parsed.changed,
         unreachable |-> parsed.unreachable, failed |-> parsed.failed,
         output |-> stdout, error |-> oc # "exit0"]

Cleanup_TryOnly(files, path, oc) == IF oc = "exit0" THEN files \ {path} ELSE files

\* the finally block: if (existsSync(configFile)) rmSync(configFile)
Cleanup(files, path, oc) == files \ {path}

(***************************************************************************)
(* The runner: the --tags argument (generateTags, run, buildCommand)       *)
(*                                                                         *)
(* A string is modelled by its comma-separated pieces, so "docker,bun" is  *)
(* <<"docker", "bun">> and the empty string is <<"">>: split(",") and      *)
(* join(",") are then the identity on the pieces, as they are on strings   *)
(* whose pieces hold no comma.                                             *)
(***************************************************************************)

ComponentNames == {"docker", "php_fpm", "caddy", "nodejs", "nvm", "bun", "security"}

generateTags_SecurityFirst(components) ==
    (IF components.security THEN <<"security">> ELSE <<>>) \o
    (IF components.docker THEN <<"docker">> ELSE <<>>) \o
    (IF components.php_fpm THEN <<"php_fpm">> ELSE <<>>) \o
    (IF components.caddy THEN <<"caddy">> ELSE <<>>) \o
    (IF components.nodejs THEN <<"nodejs">> ELSE <<>>) \o
    (IF components.nvm THEN <<"nvm">> ELSE <<>>) \o
    (IF components.bun THEN <<"bun">> ELSE <<>>)

\* generateTags: one push per enabled toggle, in the order of the statements
generateTags(components) ==
    (IF components.docker THEN <<"docker">> ELSE <<>>) \o
    (IF components.php_fpm THEN <<"php_fpm">> ELSE <<>>) \o
    (IF components.caddy THEN <<"caddy">> ELSE <<>>) \o
    (IF components.nodejs THEN <<"nodejs">> ELSE <<>>) \o
    (IF components.nvm THEN <<"nvm">> ELSE <<>>) \o
    (IF components.bun THEN <<"bun">> ELSE <<>>) \o
    (IF components.security THEN <<"security">> ELSE <<>>)

\* the value of --tags on the command line of setup: NoOption when the
\* option is not given, else the string that follows it
NoOption == <<>>

\* String.prototype.trim on the pieces of the options of TagsInit
trim(piece) ==
    CASE piece = " bun" -> "bun"
      [] piece = "security " -> "security"
      [] OTHER -> piece

\* options.tags of the run call when the caller leaves it undefined
Undefined == <<>>

\* provisionServer line 181: options.tags ? split and trim : undefined (the
\* empty string is falsy)
SingleTags(option) ==
    IF option = NoOption \/ option = <<"">> THEN Undefined
    ELSE [i \in 1..Len(option) |-> trim(option[i])]

\* provisionAllServers line 306: options.tags?.split(",").map(trim)
FleetTags(option) ==
    IF option = NoOption THEN Undefined
    ELSE [i \in 1..Len(option) |-> trim(option[i])]

\* run line 164: options.tags || this.generateTags(profile.components); an
\* array is truthy whatever its length
RunTags(optTags, components) ==
    IF optTags # Undefined THEN optTags ELSE generateTags(components)

\* buildCommand lines 66-69: the part of args that carries the tags
TagArgs(tags) == IF Len(tags) > 0 THEN <<"--tags", tags>> ELSE <<>>

VARIABLES
    tMode,        \* which caller of run: "single" or "fleet"
    tComponents,  \* profile.components
    tOption,      \* the --tags option of the setup command
    tRunTags,     \* options.tags as the caller hands it to run
    tTags,        \* what generateTags returns for tComponents
    tArgs         \* the tags part of the ansible-playbook arguments

tvars == <<tMode, tComponents, tOption, tRunTags, tTags, tArgs>>

NoArgs == <<"none">>

\* no run call has been made
TagsIdle ==
    /\ tMode = "single"
    /\ tComponents = FULL_STACK_COMPONENTS
    /\ tOption = NoOption
    /\ tRunTags = Undefined
    /\ tTags = <<>>
    /\ tArgs = NoArgs

(***************************************************************************)
(* The store: reading a history log (getHistory)                           *)
(***************************************************************************)

\* a line JSON.parse rejects
Garbage == [timestamp |-> NoTime, server |-> "", profile |-> "", status |-> "garbage", changes |-> 0]

\* an empty line, which filter(Boolean) drops
Blank == [timestamp |-> NoTime, server |-> "", profile |-> "", status |-> "blank", changes |-> 0]

\* the lines of a log: the entries appendHistory wrote at times 0..2, two of
\* them at each time, and lines damaged outside the program.  new Date() is
\* the wall clock, which can be set back, so a later line can carry an
\* earlier time.
LogLines ==
    {Garbage, Blank} \cup
    {HistoryEntry(t, "a", "minimal", st, 0) : t \in 0..2, st \in {"success", "failed"}}

\* getHistory called without a limit
NoLimit == -1

\* lines.map(JSON.parse or null).filter(not null), after filter(Boolean)
ParsedEntries(log) == SelectSeq(log, LAMBDA l : l # Garbage /\ l # Blank)

\* insertion of e after the entries that are not older than it
RECURSIVE InsertDesc(_, _)
InsertDesc(sorted, e) ==
    IF sorted = <<>> THEN <<e>>
    ELSE IF Head(sorted).timestamp >= e.timestamp
         THEN <<Head(sorted)>> \o InsertDesc(Tail(sorted), e)
         ELSE <<e>> \o sorted

\* entries.sort((a, b) => time(b) - time(a)): descending and stable
RECURSIVE SortDesc(_)
SortDesc(entries) ==
    IF entries = <<>> THEN <<>>
    ELSE InsertDesc(SortDesc(SubSeq(entries, 1, Len(entries) - 1)), entries[Len(entries)])

\* getHistory lines 408-429; `limit && limit > 0` is false for undefined and 0
getHistory(log, limit) ==
    LET entries == SortDesc(ParsedEntries(log))
    IN  IF limit # NoLimit /\ limit # 0 /\ limit > 0
        THEN SubSeq(entries, 1, IF limit < Len(entries) THEN limit ELSE Len(entries))
        ELSE entries

VARIABLES
    hLog,       \* the lines of history/<name>.log
    hLimit,     \* the limit argument of getHistory
    hResult,    \* what getHistory returned
    hRaised     \* getHistory threw

hvars == <<hLog, hLimit, hResult, hRaised>>

NotCalled == <<Garbage>>

HistoryIdle ==
    /\ hLog = <<>>
    /\ hLimit = NoLimit
    /\ hResult = NotCalled
    /\ hRaised = FALSE

(***************************************************************************)
(* The store, file by file: PersistenceManager with the schemas            *)
(*                                                                         *)
(* Here a file is what is written in it: no file, text that parseYaml      *)
(* rejects, or a record, which the schema may accept or reject.  The       *)
(* arguments of the operations are values of the TypeScript types Server   *)
(* and Profile.  A string is one of a few named texts; StrLen and          *)
(* NamePattern give the length and the character class the schemas test.   *)
(***************************************************************************)

\* the length of the text: "n1001" and "d501" stand for texts of 1001 and
\* of 501 characters, every text not listed is short
StrLen(text) ==
    CASE text = "" -> 0
      [] text = "n1001" -> 1001
      [] text = "d501" -> 501
      [] OTHER -> 9

\* /^[a-zA-Z0-9_-]+$/
NamePattern(text) == text \notin {"", "my server", "my profile"}

\* validateHost: an IPv4 address or a hostname
validateHost(host) == host \notin {"", "bad host"}

NoFile == [kind |-> "nofile"]

GarbageFile == [kind |-> "garbage"]

\* null, as getServer and getProfile return it
Null == [kind |-> "null"]

ServerData(name, host, user, port, tags, notes, createdAt, lastProvisioned) ==
    [kind |-> "data", name |-> name, host |-> host, user |-> user, port |-> port,
     tags |-> tags, notes |-> notes, createdAt |-> createdAt,
     lastProvisioned |-> lastProvisioned]

\* overrides of a profile that has none
NoOverrides == "none"

ProfileData(name, description, components, runtimeUser, overrides) ==
    [kind |-> "data", name |-> name, description |-> description,
     components |-> components, runtimeUser |-> runtimeUser, overrides |-> overrides]

DEFAULT_COMPONENTS == Components(FALSE, FALSE, FALSE, FALSE, FALSE, FALSE, FALSE)

\* ServerSchema: every check of every field runs and adds its issue
parseServer_FirstIssue(server) ==
    IF StrLen(server.name) < 1 THEN {"Server name is required"}
    ELSE IF StrLen(server.name) > 64 THEN {"Server name must be 64 characters or less"}
    ELSE IF ~NamePattern(server.name) THEN {"Server name can only contain letters"}
    ELSE IF StrLen(server.host) < 1 THEN {"Host is required"}
    ELSE IF ~validateHost(server.host) THEN {"Invalid host"}
    ELSE IF StrLen(server.user) < 1 THEN {"User is required"}
    ELSE IF server.port < 1 THEN {"port min 1"}
    ELSE IF server.port > 65535 THEN {"port max 65535"}
    ELSE IF server.tags.longest > 50 THEN {"tag max 50"}
    ELSE IF server.tags.count > 100 THEN {"tags max 100"}
    ELSE IF StrLen(server.notes) > 1000 THEN {"notes max 1000"}
    ELSE {}

parseServer(server) ==
    (IF StrLen(server.name) < 1 THEN {"Server name is required"} ELSE {}) \cup
    (IF StrLen(server.name) > 64 THEN {"Server name must be 64 characters or less"} ELSE {}) \cup
    (IF ~NamePattern(server.name) THEN {"Server name can only contain letters"} ELSE {}) \cup
    (IF StrLen(server.host) < 1 THEN {"Host is required"} ELSE {}) \cup
    (IF ~validateHost(server.host) THEN {"Invalid host"} ELSE {}) \cup
    (IF StrLen(server.user) < 1 THEN {"User is required"} ELSE {}) \cup
    (IF server.port < 1 THEN {"port min 1"} ELSE {}) \cup
    (IF server.port > 65535 THEN {"port max 65535"} ELSE {}) \cup
    (IF server.tags.longest > 50 THEN {"tag max 50"} ELSE {}) \cup
    (IF server.tags.count > 100 THEN {"tags max 100"} ELSE {}) \cup
    (IF StrLen(server.notes) > 1000 THEN {"notes max 1000"} ELSE {})

parseProfile_NoRefine(profile) ==
    (IF StrLen(profile.name) < 1 THEN {"Profile name is required"} ELSE {}) \cup
    (IF StrLen(profile.name) > 64 THEN {"Profile name must be 64 characters or less"} ELSE {}) \cup
    (IF ~NamePattern(profile.name) THEN {"Profile name can only contain letters"} ELSE {}) \cup
    (IF StrLen(profile.description) > 500 THEN {"description max 500"} ELSE {}) \cup
    (IF StrLen(profile.runtimeUser) < 1 THEN {"Runtime user is required"} ELSE {})

\* ProfileSchema: the object's checks, then the refinement; the refinement
\* is skipped only after an issue of type, which a Profile cannot have
parseProfile(profile) ==
    (IF StrLen(profile.name) < 1 THEN {"Profile name is required"} ELSE {}) \cup
    (IF StrLen(profile.name) > 64 THEN {"Profile name must be 64 characters or less"} ELSE {}) \cup
    (IF ~NamePattern(profile.name) THEN {"Profile name can only contain letters"} ELSE {}) \cup
    (IF StrLen(profile.description) > 500 THEN {"description max 500"} ELSE {}) \cup
    (IF StrLen(profile.runtimeUser) < 1 THEN {"Runtime user is required"} ELSE {}) \cup
    (IF \E n \in ComponentNames : profile.components[n] THEN {}
     ELSE {"At least one component must be enabled"})

DEFAULT_CONFIG ==
    [kind |-> "data", version |-> "1.0.0", ansiblePath |-> "../ansible-vps-setup",
     defaultProfile |-> "full-stack", logLevel |-> "info", historyRetentionDays |-> 30]

\* a config.yml the operator changed with `config set`
EditedConfig == [DEFAULT_CONFIG EXCEPT !.ansiblePath = "/opt/ansible", !.defaultProfile = "minimal"]

SeedNames == {"full-stack", "minimal", "security-only"}

\* the profile createDefaultProfiles writes under the name
SeedProfile(name) ==
    CASE name = "full-stack" -> ProfileData(name, "Full stack development server", FULL_STACK_COMPONENTS, "root", NoOverrides)
      [] name = "minimal" -> ProfileData(name, "Minimal setup", MINIMAL_COMPONENTS, "root", NoOverrides)
      [] name = "security-only" -> ProfileData(name, "Security hardening only", SECURITY_ONLY_COMPONENTS, "root", NoOverrides)

\* `Copy of ${sourceName}`
CopyOf(sourceName) ==
    CASE sourceName = "full-stack" -> "Copy of full-stack"
      [] sourceName = "minimal" -> "Copy of minimal"
      [] sourceName = "security-only" -> "Copy of security-only"
      [] OTHER -> "Copy of custom"

VARIABLES
    mConfig,    \* config.yml
    mServers,   \* [Names -> servers/<name>.yml]
    mProfiles,  \* [ProfNames -> profiles/<name>.yml]
    mHistory,   \* [Names -> the lines of history/<name>.log]
    mCalls,     \* operations carried out so far
    mCall       \* the last operation: its name, arguments and outcome

fileVars == <<mConfig, mServers, mProfiles, mHistory>>

mvars == <<fileVars, mCalls, mCall>>

\* new Date() of the operation in progress; the files of Init are older
mNow == mCalls + 1

NoCall == [op |-> "none", name |-> "", arg |-> Null, error |-> "none", raised |-> {}, wrote |-> {}]

fileExists_Parsed(files, name) == name \in DOMAIN files /\ files[name] \notin {NoFile, GarbageFile}

\* existsSync(join(dir, `${name}.yml`)): serverExists and profileExists
fileExists(files, name) == name \in DOMAIN files /\ files[name] # NoFile

\* getServer: null for no file, for text parseYaml rejects and for a record
\* parseServer rejects
readServer(files, name) ==
    IF ~fileExists(files, name) \/ files[name] = GarbageFile THEN Null
    ELSE IF parseServer(files[name]) # {} THEN Null
    ELSE files[name]

\* getProfile
readProfile(files, name) ==
    IF ~fileExists(files, name) \/ files[name] = GarbageFile THEN Null
    ELSE IF parseProfile(files[name]) # {} THEN Null
    ELSE files[name]

\* listServers and listProfiles: the names of the files of the directory
listNames(files) == {name \in DOMAIN files : files[name] # NoFile}

\* saveServer (lines 158-175): the issues it throws with, and the files it
\* leaves; it reads no file
writeServer(files, server, t) ==
    LET issues == parseServer(server)
        stamped == IF server.createdAt = NoTime THEN [server EXCEPT !.createdAt = t] ELSE server
    IN  IF issues # {} THEN [raised |-> issues, files |-> files]
        ELSE [raised |-> {}, files |-> [files EXCEPT ![server.name] = stamped]]

\* saveProfile (lines 269-280)
writeProfile(files, profile) ==
    LET issues == parseProfile(profile)
    IN  IF issues # {} THEN [raised |-> issues, files |-> files]
        ELSE [raised |-> {}, files |-> [files EXCEPT ![profile.name] = profile]]

initialize_Overwrite(config, files) ==
    [config |-> DEFAULT_CONFIG,
     profiles |-> [n \in DOMAIN files |-> IF n \in SeedNames THEN SeedProfile(n) ELSE files[n]]]

\* initialize (lines 49-103): config.yml and the three seed profiles, each
\* written only where existsSync finds no file
initialize(config, files) ==
    [config |-> IF config = NoFile THEN DEFAULT_CONFIG ELSE config,
     profiles |-> [n \in DOMAIN files |->
                     IF n \in SeedNames /\ ~fileExists(files, n) THEN SeedProfile(n) ELSE files[n]]]

duplicateProfile_NoTargetCheck(files, sourceName, targetName) ==
    LET source == readProfile(files, sourceName)
    IN  IF source = Null THEN [error |-> "not-found", raised |-> {}, files |-> files]
        ELSE LET duplicate == [source EXCEPT !.name = targetName, !.description = CopyOf(sourceName)]
                 saved == writeProfile(files, duplicate)
             IN  [error |-> IF saved.raised # {} THEN "invalid" ELSE "none",
                  raised |-> saved.raised, files |-> saved.files]

duplicateProfile_KeepsDefaults(files, sourceName, targetName) ==
    LET source == readProfile(files, sourceName)
    IN  IF source = Null THEN [error |-> "not-found", raised |-> {}, files |-> files]
        ELSE IF fileExists(files, targetName)
        THEN [error |-> "already-exists", raised |-> {}, files |-> files]
        ELSE LET duplicate == [source EXCEPT !.name = targetName, !.description = CopyOf(sourceName),
                                             !.overrides = NoOverrides]
                 saved == writeProfile(files, duplicate)
             IN  [error |-> IF saved.raised # {} THEN "invalid" ELSE "none",
                  raised |-> saved.raised, files |-> saved.files]

\* duplicateProfile (lines 365-383)
duplicateProfile(files, sourceName, targetName) ==
    LET source == readProfile(files, sourceName)
    IN  IF source = Null THEN [error |-> "not-found", raised |-> {}, files |-> files]
        ELSE IF fileExists(files, targetName)
        THEN [error |-> "already-exists", raised |-> {}, files |-> files]
        ELSE LET duplicate == [source EXCEPT !.name = targetName, !.description = CopyOf(sourceName)]
                 saved == writeProfile(files, duplicate)
             IN  [error |-> IF saved.raised # {} THEN "invalid" ELSE "none",
                  raised |-> saved.raised, files |-> saved.files]

\* getConfig (lines 110-133): the defaults when config.yml is missing, is
\* no YAML or fails ConfigSchema (validate.ts lines 67-73: logLevel one of
\* four words, historyRetentionDays from 1 to 365)
getConfig(config) ==
    IF config.kind # "data" THEN DEFAULT_CONFIG
    ELSE IF config.logLevel \notin {"debug", "info", "warn", "error"} THEN DEFAULT_CONFIG
    ELSE IF config.historyRetentionDays \notin 1..365 THEN DEFAULT_CONFIG
    ELSE config

\* updateConfig({[key]: value}) (lines 146-151): the file saveConfig writes
updateConfig(config, key, value) == [getConfig(config) EXCEPT ![key] = value]

\* deleteProfile (lines 340-353)
deleteProfile(files, name) ==
    IF fileExists(files, name) THEN [files EXCEPT ![name] = NoFile] ELSE files

ManagerIdle ==
    /\ mConfig = NoFile
    /\ mServers = [n \in Names |-> NoFile]
    /\ mProfiles = [n \in ProfNames |-> NoFile]
    /\ mHistory = [n \in Names |-> <<>>]
    /\ mCalls = 0
    /\ mCall = NoCall

(***************************************************************************)
(* The runner: the arguments of ansible-playbook (buildCommand)            *)
(*                                                                         *)
(* An argument is the sequence of its parts: the elements join(",") puts   *)
(* together, or the parts of a template string.                            *)
(***************************************************************************)

buildSSHTunnelOptions_AnyPort(port, sshKey) ==
    (IF port # 0 THEN <<IF port = 22 THEN "-o Port=22" ELSE "-o Port=2222">> ELSE <<>>) \o
    (IF sshKey # "" THEN <<"-o IdentityFile=id_ed25519">> ELSE <<>>)

\* buildSSHTunnelOptions: the options as strings; port 0 is the undefined
\* port, "" the undefined key, 2222 and id_ed25519 the only other port and
\* key of the model
buildSSHTunnelOptions(port, sshKey) ==
    (IF port # 0 /\ port # 22 THEN <<"-o Port=2222">> ELSE <<>>) \o
    (IF sshKey # "" THEN <<"-o IdentityFile=id_ed25519">> ELSE <<>>)

\* buildCommand: one push per statement; "" and <<>> are the undefined
\* playbook, configFile, tags and skipTags
buildCommand(options) ==
    LET sshOptions == buildSSHTunnelOptions(options.port, options.sshKey)
        tagArgs == TagArgs(options.tags)
    IN  <<IF options.playbook # "" THEN <<options.playbook>>
          ELSE <<"ansiblePath", "playbooks", "provision.yml">>>> \o
        <<<<"-i">>, <<options.host, ",">>>> \o
        <<<<"-u">>, <<options.user>>>> \o
        (IF Len(sshOptions) > 0 THEN <<<<"--ssh-common-args">>, sshOptions>> ELSE <<>>) \o
        (IF tagArgs # <<>> THEN <<<<tagArgs[1]>>, tagArgs[2]>> ELSE <<>>) \o
        (IF Len(options.skipTags) > 0 THEN <<<<"--skip-tags">>, options.skipTags>> ELSE <<>>) \o
        (IF options.check THEN <<<<"--check">>, <<"--diff">>>> ELSE <<>>) \o
        (IF options.verbose THEN <<<<"-v">>>> ELSE <<>>) \o
        (IF options.configFile # "" THEN <<<<"-e">>, <<"@", options.configFile>>>> ELSE <<>>)

VARIABLES
    bOptions,   \* the options buildCommand was called with
    bArgs,      \* the arguments it returned, <<>> before the call
    rPc,        \* [1..2 -> "idle", "running", "done"]: two calls of run, in
                \* two processes or in one
    rPath,      \* [1..2 -> configFile of the call]
    rClock,     \* Date.now()
    rFiles,     \* the files of /tmp/vps-setup: [path, by], by the call that
                \* wrote the file last
    eVar,       \* process.env.VPS_SETUP_CONFIG_DIR, "(unset)" when not set
    pmDir,      \* this.configDir of the PersistenceManager, "(none)" before
                \* it is constructed
    usedDir     \* the last store operation and the directory it worked in

\* the variables of CommandSpec, of RunnerSpec and of DirSpec
zvars == <<bOptions, bArgs, rPc, rPath, rClock, rFiles, eVar, pmDir, usedDir>>

ZIdle ==
    /\ bOptions = [playbook |-> "", host |-> "h1", user |-> "root", port |-> 0, sshKey |-> "",
                   tags |-> <<>>, skipTags |-> <<>>, check |-> FALSE, verbose |-> FALSE,
                   configFile |-> ""]
    /\ bArgs = <<>>
    /\ rPc = [i \in 1..2 |-> "idle"]
    /\ rPath = [i \in 1..2 |-> NoPath]
    /\ rClock = 0
    /\ rFiles = {}
    /\ eVar = "(unset)"
    /\ pmDir = "(none)"
    /\ usedDir = [op |-> "none", dir |-> "(none)"]

\* what the other specifications leave alone
xvars == <<tvars, hvars, mvars, zvars>>

XIdle == TagsIdle /\ HistoryIdle /\ ManagerIdle /\ ZIdle

(***************************************************************************)
(* The setup command: provisionServer and provisionAllServers              *)
(***************************************************************************)

VARIABLES
    pc,         \* stage of the invocation: Idle, Probing, Configuring,
                \* Executing, Recording, Loop (fleet run between two servers),
                \* Done (returned), Failed (process.exit(1))
    mode,       \* "single" (provisionServer) or "fleet" (provisionAllServers)
    cur,        \* serverName of the run in progress
    snap,       \* server: the record getServer returned to this run
    prof,       \* profileName / options.profile
    dry,        \* options.dryRun
    queue,      \* servers: what listServers returned to the fleet run
    idx,        \* i + 1 of the fleet loop
    results,    \* results of the fleet run
    toolInstalled,   \* ansible-playbook is in PATH
    playbookPresent, \* <ansiblePath>/playbooks/provision.yml exists
    configFile, \* configFile of the run call in progress
    running,    \* the ansible-playbook process of this run call is alive
    outcome,    \* how the last run call of this invocation ended
    result,     \* the AnsibleResult the run call returned
    exitReason, \* why the invocation ended
    spawned,    \* ansible-playbook processes this invocation has spawned
    executed,   \* names whose run call of this invocation called execa
    runAppends  \* [Names -> number of appendHistory calls of this invocation]

storeVars == <<servers, history, profiles>>

runVars == <<pc, mode, cur, snap, prof, dry, queue, idx, results, toolInstalled,
             playbookPresent, configFile, running, outcome, result, exitReason,
             spawned, executed, runAppends>>

NoAppends == [n \in Names |-> 0]

RunIdle ==
    /\ pc = "Idle"
    /\ mode = "single"
    /\ cur = ""
    /\ snap = AbsentFile
    /\ prof = NoProfile
    /\ dry = FALSE
    /\ queue = <<>>
    /\ idx = 1
    /\ results = <<>>
    /\ toolInstalled = TRUE
    /\ playbookPresent = TRUE
    /\ configFile = NoPath
    /\ running = FALSE
    /\ outcome = "none"
    /\ result = NoRunResult
    /\ exitReason = "none"
    /\ spawned = 0
    /\ executed = {}
    /\ runAppends = NoAppends

\* how provisionServer ends when the run call has returned `res`
\* (lines 205-256): the entries it appends
SingleEntries_FailureUnrecorded(res, name, profile, dryRun, t) ==
    IF res.success
    THEN <<HistoryEntry(t, name, profile, IF dryRun THEN "dry-run" ELSE "success", res.changed)>>
    ELSE <<>>

SingleEntries(res, name, profile, dryRun, t) ==
    IF res.success
    THEN <<HistoryEntry(t, name, profile, IF dryRun THEN "dry-run" ELSE "success", res.changed)>>
    ELSE <<HistoryEntry(t, name, profile, "failed", res.changed)>>

FleetEntries_FailureUnrecorded(res, name, profile, dryRun, t) ==
    IF res.success THEN <<HistoryEntry(t, name, profile, "success", res.changed)>> ELSE <<>>

\* the entries one pass of the fleet loop appends (lines 326-334)
FleetEntries(res, name, profile, dryRun, t) ==
    <<HistoryEntry(t, name, profile, IF res.success THEN "success" ELSE "failed", res.changed)>>

UpdatesServer_Always(res) == TRUE

\* if (result.success) pm.saveServer({...server, lastProvisioned}) (lines 205, 319)
UpdatesServer(res) == res.success

AppendEntries(h, name, es) == IF es = <<>> THEN h ELSE appendHistory(h, name, es[1])

\* setup <server> -p <profile>: the command's action and provisionServer up
\* to its first wait on the remote shell (part_007 lines 49-82, 135-168)
StartSingle(name, profile, dryRun, inst, pb) ==
    /\ pc = "Idle"
    /\ runs < MaxRuns
    /\ runs' = runs + 1
    /\ inst \/ pb
    /\ mode' = "single"
    /\ cur' = name
    /\ prof' = profile
    /\ dry' = dryRun
    /\ toolInstalled' = inst
    /\ playbookPresent' = pb
    /\ LET server == getServer(name)
           profile_ == getProfile(profile)
       IN  IF IsNull(server) \/ profile_ = AbsentProfile
           THEN pc' = "Failed" /\ exitReason' = "not-found" /\ snap' = AbsentFile
           ELSE IF ~inst
           THEN pc' = "Failed" /\ exitReason' = "tool-not-found" /\ snap' = server
           ELSE IF ~pb
           THEN pc' = "Failed" /\ exitReason' = "playbook-not-found" /\ snap' = server
           ELSE pc' = "Probing" /\ exitReason' = "none" /\ snap' = server
    /\ UNCHANGED <<queue, idx, results, configFile, running, outcome, result,
                   spawned, executed, runAppends>>
    /\ UNCHANGED <<storeVars, tmpFiles>>
    /\ UNCHANGED <<ops, pvars, xvars>>

\* testSSHConnection returned success: false; provisionServer exits
\* (part_007 lines 172-176)
ProbeFails ==
    /\ pc = "Probing"
    /\ pc' = "Failed"
    /\ exitReason' = "ssh"
    /\ UNCHANGED <<mode, cur, snap, prof, dry, queue, idx, results, toolInstalled,
                   playbookPresent, configFile, running, outcome, result,
                   spawned, executed, runAppends>>
    /\ UNCHANGED <<storeVars, tmpFiles>>
    /\ UNCHANGED <<runs, ops, pvars, xvars>>

\* testSSHConnection returned success: true (part_007 line 178)
ProbeSucceeds ==
    /\ pc = "Probing"
    /\ pc' = "Configuring"
    /\ UNCHANGED <<mode, cur, snap, prof, dry, queue, idx, results, toolInstalled,
                   playbookPresent, configFile, running, outcome, result, exitReason,
                   spawned, executed, runAppends>>
    /\ UNCHANGED <<storeVars, tmpFiles>>
    /\ UNCHANGED <<runs, ops, pvars, xvars>>

\* run: writeFileSync of the variables file throws; the catch block builds
\* the result and the finally block removes what was written
\* (part_003 lines 156-160, 196-216)
ConfigWriteFails(partial) ==
    /\ pc = "Configuring"
    /\ LET path == ConfigFilePath(cur, now)
           written == IF partial THEN tmpFiles \cup {path} ELSE tmpFiles
       IN  /\ configFile' = path
           /\ tmpFiles' = Cleanup(written, path, "writefail")
    /\ outcome' = "writefail"
    /\ result' = RunResult("writefail", OutEmpty)
    /\ pc' = "Recording"
    /\ UNCHANGED <<mode, cur, snap, prof, dry, queue, idx, results, toolInstalled,
                   playbookPresent, running, exitReason, spawned, executed, runAppends>>
    /\ UNCHANGED storeVars
    /\ UNCHANGED <<runs, ops, pvars, xvars>>

\* run: the variables file is written and execa("ansible-playbook", args)
\* is called; the process starts (spawnOk) or cannot be started
\* (part_003 lines 156-186)
ConfigSpawn(spawnOk) ==
    /\ pc = "Configuring"
    /\ spawnOk => toolInstalled
    /\ LET path == ConfigFilePath(cur, now)
       IN  /\ configFile' = path
           /\ tmpFiles' = tmpFiles \cup {path}
    /\ running' = spawnOk
    /\ spawned' = IF spawnOk THEN spawned + 1 ELSE spawned
    /\ executed' = executed \cup {cur}
    /\ pc' = "Executing"
    /\ UNCHANGED <<mode, cur, snap, prof, dry, queue, idx, results, toolInstalled,
                   playbookPresent, outcome, result, exitReason, runAppends>>
    /\ UNCHANGED storeVars
    /\ UNCHANGED <<runs, ops, pvars, xvars>>

\* run: the awaited execa call settles: the process exited with code 0, with
\* another code, was killed at the 600000 ms timeout, or never started;
\* stdout is what was captured until then (part_003 lines 183-216)
ToolEnds(oc, stdout) ==
    /\ pc = "Executing"
    /\ oc \in {"exit0", "nonzero", "timeout", "spawnfail"}
    /\ running <=> oc # "spawnfail"
    /\ oc = "spawnfail" => stdout = OutEmpty
    /\ (running /\ ~playbookPresent) => (oc = "nonzero" /\ stdout = OutEmpty)
    /\ outcome' = oc
    /\ result' = RunResult(oc, stdout)
    /\ running' = FALSE
    /\ tmpFiles' = Cleanup(tmpFiles, configFile, oc)
    /\ pc' = "Recording"
    /\ UNCHANGED <<mode, cur, snap, prof, dry, queue, idx, results, toolInstalled,
                   playbookPresent, configFile, exitReason, spawned, executed, runAppends>>
    /\ UNCHANGED storeVars
    /\ UNCHANGED <<runs, ops, pvars, xvars>>

\* provisionServer after the run call returned (part_007 lines 203-256)
RecordSingle ==
    /\ pc = "Recording"
    /\ mode = "single"
    /\ LET es == SingleEntries(result, cur, prof, dry, now)
       IN  /\ servers' = IF UpdatesServer(result)
                         THEN saveServer(servers, cur, [snap EXCEPT !.lastProvisioned = now])
                         ELSE servers
           /\ history' = AppendEntries(history, cur, es)
           /\ runAppends' = [runAppends EXCEPT ![cur] = @ + Len(es)]
    /\ pc' = IF result.success THEN "Done" ELSE "Failed"
    /\ exitReason' = IF result.success THEN "ok" ELSE "run-failed"
    /\ snap' = AbsentFile
    /\ configFile' = NoPath
    /\ result' = NoRunResult
    /\ UNCHANGED <<mode, cur, prof, dry, queue, idx, results, toolInstalled,
                   playbookPresent, running, outcome, spawned, executed>>
    /\ UNCHANGED <<profiles, tmpFiles>>
    /\ UNCHANGED <<runs, ops, pvars, xvars>>

\* setup --all: provisionAllServers up to its loop (part_007 lines 271-291)
StartFleet(profile, dryRun, inst, pb) ==
    /\ pc = "Idle"
    /\ runs < MaxRuns
    /\ runs' = runs + 1
    /\ inst \/ pb
    /\ mode' = "fleet"
    /\ prof' = profile
    /\ dry' = dryRun
    /\ toolInstalled' = inst
    /\ playbookPresent' = pb
    /\ idx' = 1
    /\ IF listServers = <<>>
       THEN pc' = "Failed" /\ exitReason' = "no-servers" /\ queue' = <<>>
       ELSE IF profile = NoProfile
       THEN pc' = "Failed" /\ exitReason' = "no-profile-option" /\ queue' = listServers
       ELSE IF getProfile(profile) = AbsentProfile
       THEN pc' = "Failed" /\ exitReason' = "not-found" /\ queue' = listServers
       ELSE pc' = "Loop" /\ exitReason' = "none" /\ queue' = listServers
    /\ UNCHANGED <<cur, snap, results, configFile, running, outcome, result,
                   spawned, executed, runAppends>>
    /\ UNCHANGED <<storeVars, tmpFiles>>
    /\ UNCHANGED <<ops, pvars, xvars>>

\* fleet loop: getServer returned null, `continue` (part_007 lines 298-299)
FleetSkip ==
    /\ pc = "Loop"
    /\ idx <= Len(queue)
    /\ IsNull(getServer(queue[idx]))
    /\ idx' = idx + 1
    /\ UNCHANGED <<pc, mode, cur, snap, prof, dry, queue, results, toolInstalled,
                   playbookPresent, configFile, running, outcome, result, exitReason,
                   spawned, executed, runAppends>>
    /\ UNCHANGED <<storeVars, tmpFiles>>
    /\ UNCHANGED <<runs, ops, pvars, xvars>>

\* fleet loop: the server is read and its run call begins; there is no
\* connectivity probe and no check of the tool (part_007 lines 298-305)
FleetBegin ==
    /\ pc = "Loop"
    /\ idx <= Len(queue)
    /\ ~IsNull(getServer(queue[idx]))
    /\ cur' = queue[idx]
    /\ snap' = getServer(queue[idx])
    /\ outcome' = "none"
    /\ pc' = "Configuring"
    /\ UNCHANGED <<mode, prof, dry, queue, idx, results, toolInstalled,
                   playbookPresent, configFile, running, result, exitReason,
                   spawned, executed, runAppends>>
    /\ UNCHANGED <<storeVars, tmpFiles>>
    /\ UNCHANGED <<runs, ops, pvars, xvars>>

\* fleet loop after the run call returned (part_007 lines 312-334)
RecordFleet ==
    /\ pc = "Recording"
    /\ mode = "fleet"
    /\ results' = Append(results, [server |-> cur, success |-> result.success])
    /\ LET es == FleetEntries(result, cur, prof, dry, now)
       IN  /\ servers' = IF UpdatesServer(result)
                         THEN saveServer(servers, cur, [snap EXCEPT !.lastProvisioned = now])
                         ELSE servers
           /\ history' = AppendEntries(history, cur, es)
           /\ runAppends' = [runAppends EXCEPT ![cur] = @ + Len(es)]
    /\ idx' = idx + 1
    /\ pc' = "Loop"
    /\ snap' = AbsentFile
    /\ configFile' = NoPath
    /\ result' = NoRunResult
    /\ UNCHANGED <<mode, cur, prof, dry, queue, toolInstalled,
                   playbookPresent, running, outcome, exitReason, spawned, executed>>
    /\ UNCHANGED <<profiles, tmpFiles>>
    /\ UNCHANGED <<runs, ops, pvars, xvars>>

\* fleet loop is over: the summary is printed (part_007 lines 344-355)
FleetFinish ==
    /\ pc = "Loop"
    /\ idx > Len(queue)
    /\ pc' = "Done"
    /\ exitReason' = "ok"
    /\ UNCHANGED <<mode, cur, snap, prof, dry, queue, idx, results, toolInstalled,
                   playbookPresent, configFile, running, outcome, result,
                   spawned, executed, runAppends>>
    /\ UNCHANGED <<storeVars, tmpFiles>>
    /\ UNCHANGED <<runs, ops, pvars, xvars>>

\* the process of the invocation is gone; the next invocation starts afresh
NextInvocation ==
    /\ pc \in {"Done", "Failed"}
    /\ pc' = "Idle"
    /\ mode' = "single"
    /\ cur' = ""
    /\ snap' = AbsentFile
    /\ prof' = NoProfile
    /\ dry' = FALSE
    /\ queue' = <<>>
    /\ idx' = 1
    /\ results' = <<>>
    /\ toolInstalled' = TRUE
    /\ playbookPresent' = TRUE
    /\ configFile' = NoPath
    /\ running' = FALSE
    /\ outcome' = "none"
    /\ result' = NoRunResult
    /\ exitReason' = "none"
    /\ spawned' = 0
    /\ executed' = {}
    /\ runAppends' = NoAppends
    /\ UNCHANGED <<storeVars, tmpFiles>>
    /\ UNCHANGED <<runs, ops, pvars, xvars>>

(***************************************************************************)
(* The operator's other commands and the environment                       *)
(*                                                                         *)
(* They come from another process, or from this one between two            *)
(* invocations.  They are placed between two invocations (Idle) and where  *)
(* an invocation waits for the tool (Executing): the code before and after *)
(* that wait reads the store once, at its start, and writes it once, at    *)
(* its end, so a command that arrives elsewhere has the effect of one that *)
(* arrives at one of these two places.                                     *)
(***************************************************************************)

OpStep ==
    /\ pc \in {"Idle", "Executing"}
    /\ ops < MaxOps
    /\ ops' = ops + 1
    /\ UNCHANGED <<runs, runVars, pvars, xvars>>

\* server add <name>: refused when the file exists (cli/commands/index.ts
\* lines 147-254)
AddServer(name) ==
    /\ OpStep
    /\ ~serverExists(name)
    /\ servers' = saveServer(servers, name, ServerRec("h1", now, NoTime))
    /\ UNCHANGED <<history, profiles, tmpFiles>>

\* server edit <name>: the record getServer returns, saved with the host
\* the operator typed (cli/commands/index.ts lines 369-461).  No run reads
\* the host, so an edit has an effect on a run only when it is an edit of
\* the run's server that arrives while the run waits for the tool; the edit
\* is placed there.
EditServer(name) ==
    /\ OpStep
    /\ pc = "Executing"
    /\ name = cur
    /\ ~IsNull(getServer(name))
    /\ servers' = saveServer(servers, name, [getServer(name) EXCEPT !.host = "h2"])
    /\ UNCHANGED <<history, profiles, tmpFiles>>

\* deleteServer: the record and the history log (part_004 lines 235-255)
DeleteServer(name) ==
    /\ OpStep
    /\ serverExists(name)
    /\ servers' = [servers EXCEPT ![name] = AbsentFile]
    /\ history' = [history EXCEPT ![name] = <<>>]
    /\ UNCHANGED <<profiles, tmpFiles>>

\* clearHistory (part_004 lines 438-450)
ClearHistory(name) ==
    /\ OpStep
    /\ history[name] # <<>>
    /\ history' = [history EXCEPT ![name] = <<>>]
    /\ UNCHANGED <<servers, profiles, tmpFiles>>

\* a server file is damaged outside the program (edited by hand, truncated)
DamageFile(name) ==
    /\ OpStep
    /\ servers[name].st = "ok"
    /\ servers' = [servers EXCEPT ![name] = [AbsentFile EXCEPT !.st = "corrupt"]]
    /\ UNCHANGED <<history, profiles, tmpFiles>>

(***************************************************************************)
(* ParseSpec: parseOutput applied to every text of Texts                   *)
(***************************************************************************)

NoResult == [success |-> FALSE, ok |-> NA, changed |-> NA, unreachable |-> NA, failed |-> NA]

\* parseOutput has not been called
ParseIdle ==
    /\ pText = <<>>
    /\ pResult = NoResult
    /\ pRaised = FALSE

mainVars == <<storeVars, tmpFiles, runs, ops, runVars>>

vars == <<mainVars, pvars, xvars>>

\* The store is a directory that outlives the process.  An invocation finds
\* each name in one of three states earlier invocations leave behind: never
\* added; added at time 0 and not provisioned; added at time 0 and
\* provisioned once, with success, at time 0.
StoreInit ==
    /\ servers \in [Names -> {AbsentFile, ServerRec("h1", 0, NoTime), ServerRec("h1", 0, 0)}]
    /\ history = [n \in Names |->
                    IF servers[n].lastProvisioned = NoTime THEN <<>>
                    ELSE <<HistoryEntry(0, n, "minimal", "success", 1)>>]
    /\ profiles = SeedProfiles
    /\ tmpFiles = {}
    /\ runs = 0
    /\ ops = 0

EmptyStore ==
    /\ servers = [n \in Names |-> AbsentFile]
    /\ history = [n \in Names |-> <<>>]
    /\ profiles = SeedProfiles
    /\ tmpFiles = {}
    /\ runs = 0
    /\ ops = 0

ParseInit ==
    /\ pText \in Texts
    /\ pResult = NoResult
    /\ pRaised = FALSE
    /\ EmptyStore
    /\ RunIdle
    /\ XIdle

\* parseOutput has no throwing path: match on a string and parseInt of digits
Parse ==
    /\ pResult = NoResult
    /\ pResult' = parseOutput(pText)
    /\ pRaised' = FALSE
    /\ UNCHANGED pText
    /\ UNCHANGED <<mainVars, xvars>>

ParseNext == Parse

ParseSpec == ParseInit /\ [][ParseNext]_vars

(***************************************************************************)
(* TagsSpec: the --tags argument of a run, for every accepted set of       *)
(* components and every value of --tags, from either caller of run         *)
(***************************************************************************)

TagsInit ==
    /\ tMode \in {"single", "fleet"}
    /\ tComponents \in {c \in [ComponentNames -> BOOLEAN] : \E n \in ComponentNames : c[n]}
    /\ tOption \in {NoOption, <<"">>, <<"docker">>, <<" bun", "security ">>, <<"", "caddy">>}
    /\ tRunTags = Undefined
    /\ tTags = <<>>
    /\ tArgs = NoArgs
    /\ HistoryIdle
    /\ ManagerIdle
    /\ ZIdle
    /\ EmptyStore
    /\ RunIdle
    /\ ParseIdle

\* runner.run(server, profile, { tags, ... }) up to the buildCommand call
BuildTags ==
    /\ tArgs = NoArgs
    /\ tRunTags' = IF tMode = "single" THEN SingleTags(tOption) ELSE FleetTags(tOption)
    /\ tTags' = generateTags(tComponents)
    /\ tArgs' = TagArgs(RunTags(tRunTags', tComponents))
    /\ UNCHANGED <<tMode, tComponents, tOption>>
    /\ UNCHANGED <<mainVars, pvars, hvars, mvars, zvars>>

TagsNext == BuildTags

TagsSpec == TagsInit /\ [][TagsNext]_vars

(***************************************************************************)
(* HistorySpec: getHistory applied to every log with every limit           *)
(***************************************************************************)

HistoryInit ==
    /\ hLog \in UNION {[1..n -> LogLines] : n \in 0..MaxLogLen}
    /\ hLimit \in {NoLimit} \cup (0..(MaxLogLen + 1))
    /\ hResult = NotCalled
    /\ hRaised = FALSE
    /\ TagsIdle
    /\ ManagerIdle
    /\ ZIdle
    /\ EmptyStore
    /\ RunIdle
    /\ ParseIdle

\* getHistory: the file exists and is read; JSON.parse failures are caught
\* per line, so nothing is thrown
GetHistory ==
    /\ hResult = NotCalled
    /\ hResult' = getHistory(hLog, hLimit)
    /\ hRaised' = FALSE
    /\ UNCHANGED <<hLog, hLimit>>
    /\ UNCHANGED <<mainVars, pvars, tvars, mvars, zvars>>

HistoryNext == GetHistory

HistorySpec == HistoryInit /\ [][HistoryNext]_vars

(***************************************************************************)
(* StoreSpec: the operations of PersistenceManager, and the commands that  *)
(* create and edit servers and profiles, applied to the stores earlier     *)
(* invocations and the operator's editor can leave behind                  *)
(***************************************************************************)

\* servers/a.yml as server add wrote it at time 0
ServerA == ServerData("a", "h1", "root", 22, [count |-> 2, longest |-> 3], "", 0, NoTime)

\* profiles/minimal.yml after profile edit, with overrides added by hand
EditedMinimal == ProfileData("minimal", "mine", FULL_STACK_COMPONENTS, "deploy", "php_version: 8.3")

StoreSpecInit ==
    /\ mConfig \in {NoFile, EditedConfig, GarbageFile}
    /\ \E a \in {NoFile, GarbageFile, ServerA, [ServerA EXCEPT !.port = 0]} :
            /\ mServers = [n \in Names |-> IF n = "a" THEN a
                                    ELSE [ServerA EXCEPT !.name = "b", !.lastProvisioned = 0]]
            /\ mHistory = [n \in Names |->
                             IF n = "a" /\ a = NoFile THEN <<>>
                             ELSE <<HistoryEntry(0, n, "minimal", "success", 1)>>]
    /\ \E seeded \in BOOLEAN,
          m \in {NoFile, GarbageFile, SeedProfile("minimal"), EditedMinimal,
                 [SeedProfile("minimal") EXCEPT !.components = DEFAULT_COMPONENTS]},
          c \in {NoFile, ProfileData("custom", "", SECURITY_ONLY_COMPONENTS, "deploy", "ufw: strict")} :
            mProfiles = [n \in ProfNames |->
                           CASE n = "minimal" -> m
                             [] n = "custom" -> c
                             [] OTHER -> IF seeded THEN SeedProfile(n) ELSE NoFile]
    /\ mCalls = 0
    /\ mCall = NoCall
    /\ TagsIdle
    /\ HistoryIdle
    /\ ZIdle
    /\ EmptyStore
    /\ RunIdle
    /\ ParseIdle

\* one operation: its outcome, the files it leaves and, in wrote, the
\* files it changed
Operation(op, name, arg, error, raised, config, srv, prf, hist) ==
    /\ mCalls < MaxCalls
    /\ mCalls' = mCalls + 1
    /\ mConfig' = config
    /\ mServers' = srv
    /\ mProfiles' = prf
    /\ mHistory' = hist
    /\ mCall' = [op |-> op, name |-> name, arg |-> arg, error |-> error, raised |-> raised,
                 wrote |-> (IF config # mConfig THEN {<<"", "config">>} ELSE {}) \cup
                     {<<"servers", n>> : n \in {x \in Names : srv[x] # mServers[x]}} \cup
                     {<<"profiles", n>> : n \in {x \in ProfNames : prf[x] # mProfiles[x]}} \cup
                     {<<"history", n>> : n \in {x \in Names : hist[x] # mHistory[x]}}]
    /\ UNCHANGED <<mainVars, pvars, tvars, hvars, zvars>>

\* pm.saveServer(server)
SaveServer(server) ==
    LET saved == writeServer(mServers, server, mNow)
    IN  Operation("saveServer", server.name, server,
                  IF saved.raised # {} THEN "invalid" ELSE "none", saved.raised,
                  mConfig, saved.files, mProfiles, mHistory)

\* pm.saveProfile(profile)
SaveProfile(profile) ==
    LET saved == writeProfile(mProfiles, profile)
    IN  Operation("saveProfile", profile.name, profile,
                  IF saved.raised # {} THEN "invalid" ELSE "none", saved.raised,
                  mConfig, mServers, saved.files, mHistory)

\* pm.initialize()
Initialize ==
    LET after == initialize(mConfig, mProfiles)
    IN  Operation("initialize", "", Null, "none", {},
                  after.config, mServers, after.profiles, mHistory)

\* pm.duplicateProfile(sourceName, targetName)
DuplicateProfile(sourceName, targetName) ==
    LET done == duplicateProfile(mProfiles, sourceName, targetName)
    IN  Operation("duplicateProfile", targetName, [kind |-> "source", name |-> sourceName],
                  done.error, done.raised, mConfig, mServers, done.files, mHistory)

\* server add <name> -H <host> -u root (cli/commands/index.ts lines 144-254)
ServerAddCommand(name, host) ==
    LET server == ServerData(name, host, "root", 22, [count |-> 2, longest |-> 3], "", mNow, NoTime)
        saved == writeServer(mServers, server, mNow)
    IN  IF fileExists(mServers, name)
        THEN Operation("server add", name, Null, "already-exists", {},
                       mConfig, mServers, mProfiles, mHistory)
        ELSE Operation("server add", name, server,
                       IF saved.raised # {} THEN "invalid" ELSE "none", saved.raised,
                       mConfig, saved.files, mProfiles, mHistory)

\* server edit <name> (cli/commands/index.ts lines 372-461)
ServerEditCommand(name, host) ==
    LET server == readServer(mServers, name)
        updated == [server EXCEPT !.host = host]
        saved == writeServer(mServers, updated, mNow)
    IN  IF server = Null
        THEN Operation("server edit", name, Null, "not-found", {},
                       mConfig, mServers, mProfiles, mHistory)
        ELSE Operation("server edit", name, updated,
                       IF saved.raised # {} THEN "invalid" ELSE "none", saved.raised,
                       mConfig, saved.files, mProfiles, mHistory)

\* the success branch of provisionServer (part_007 lines 205-228) on the
\* record the run read at its start
RecordSuccess(name) ==
    LET server == readServer(mServers, name)
        updated == [server EXCEPT !.lastProvisioned = mNow]
        saved == writeServer(mServers, updated, mNow)
    IN  /\ server # Null
        /\ Operation("setup", name, updated, "none", {}, mConfig, saved.files, mProfiles,
                     [mHistory EXCEPT ![name] =
                         Append(@, HistoryEntry(mNow, name, "minimal", "success", 1))])

\* profile create <name> with component flags and --runtime-user
\* (part_006 lines 29-136)
ProfileCreateCommand(name, components) ==
    LET profile == ProfileData(name, "", components, "root", NoOverrides)
        saved == writeProfile(mProfiles, profile)
    IN  IF fileExists(mProfiles, name)
        THEN Operation("profile create", name, Null, "already-exists", {},
                       mConfig, mServers, mProfiles, mHistory)
        ELSE IF ~\E n \in ComponentNames : components[n]
        THEN Operation("profile create", name, profile, "no-component", {},
                       mConfig, mServers, mProfiles, mHistory)
        ELSE Operation("profile create", name, profile,
                       IF saved.raised # {} THEN "invalid" ELSE "none", saved.raised,
                       mConfig, mServers, saved.files, mHistory)

\* profile edit <name> (part_006 lines 234-318)
ProfileEditCommand(name, components) ==
    LET prof_ == readProfile(mProfiles, name)
        updated == [prof_ EXCEPT !.description = "", !.components = components]
        saved == writeProfile(mProfiles, updated)
    IN  IF prof_ = Null
        THEN Operation("profile edit", name, Null, "not-found", {},
                       mConfig, mServers, mProfiles, mHistory)
        ELSE IF ~\E n \in ComponentNames : components[n]
        THEN Operation("profile edit", name, updated, "no-component", {},
                       mConfig, mServers, mProfiles, mHistory)
        ELSE Operation("profile edit", name, updated,
                       IF saved.raised # {} THEN "invalid" ELSE "none", saved.raised,
                       mConfig, mServers, saved.files, mHistory)

\* profile delete <name> --force (part_006 lines 321-354)
ProfileDeleteCommand(name) ==
    IF readProfile(mProfiles, name) = Null
    THEN Operation("profile delete", name, Null, "not-found", {},
                   mConfig, mServers, mProfiles, mHistory)
    ELSE Operation("profile delete", name, Null, "none", {},
                   mConfig, mServers, deleteProfile(mProfiles, name), mHistory)

\* config set <key> <value> (cli/commands/config.ts lines 49-79); parseInt
\* reads "90" and "0" as numbers and "soon" as NaN
ConfigSetCommand(key, value) ==
    LET parsedValue == IF key # "historyRetentionDays" THEN value
                       ELSE IF value = "90" THEN 90 ELSE 0
    IN  IF key \notin {"ansiblePath", "defaultProfile", "logLevel", "historyRetentionDays"}
        THEN Operation("config set", key, Null, "invalid-key", {},
                       mConfig, mServers, mProfiles, mHistory)
        ELSE IF key = "historyRetentionDays" /\ value \notin {"90", "0"}
        THEN Operation("config set", key, Null, "not-a-number", {},
                       mConfig, mServers, mProfiles, mHistory)
        ELSE Operation("config set", key, [kind |-> "value", value |-> parsedValue], "none", {},
                       updateConfig(mConfig, key, parsedValue), mServers, mProfiles, mHistory)

\* the arguments of saveServer: a record that breaks any of the rules of
\* name, host, port, tags (101 of them, one of 51 characters) and notes,
\* with no createdAt, and the record without fault with no createdAt and
\* with one that is no time of the model's clock (7).
ServerInputs ==
    {ServerData(name, host, "root", port, tags, notes, NoTime, NoTime) :
        name \in {"a", "", "my server"}, host \in {"h1", "bad host"}, port \in {22, 0},
        tags \in {[count |-> 2, longest |-> 3], [count |-> 101, longest |-> 51]}, notes \in {"", "n1001"}}
    \cup {ServerData("a", "h1", "root", 22, [count |-> 2, longest |-> 3], "", 7, NoTime)}

\* the arguments of saveProfile
ProfileInputs ==
    {ProfileData(name, "", components, runtimeUser, NoOverrides) :
        name \in {"custom", "minimal", "", "my profile"},
        components \in {MINIMAL_COMPONENTS, DEFAULT_COMPONENTS}, runtimeUser \in {"root", ""}}
    \cup {ProfileData("", "d501", DEFAULT_COMPONENTS, "", NoOverrides)}

StoreSpecNext ==
    \/ \E server \in ServerInputs : SaveServer(server)
    \/ \E profile \in ProfileInputs : SaveProfile(profile)
    \/ Initialize
    \/ \E sourceName \in ProfNames, targetName \in ProfNames \cup {"my profile"} :
            DuplicateProfile(sourceName, targetName)
    \/ \E name \in Names, host \in {"h2", "bad host"} : ServerAddCommand(name, host)
    \/ \E name \in Names, host \in {"h2", "bad host"} : ServerEditCommand(name, host)
    \/ \E name \in Names : RecordSuccess(name)
    \/ \E name \in ProfNames \cup {"my profile"}, components \in {MINIMAL_COMPONENTS, DEFAULT_COMPONENTS} :
            ProfileCreateCommand(name, components)
    \/ \E name \in ProfNames, components \in {MINIMAL_COMPONENTS, DEFAULT_COMPONENTS} :
            ProfileEditCommand(name, components)
    \/ \E name \in ProfNames : ProfileDeleteCommand(name)
    \/ \E kv \in {<<"ansiblePath", "/srv/ansible">>, <<"defaultProfile", "custom">>,
                  <<"defaultProfile", "nope">>, <<"logLevel", "debug">>,
                  <<"logLevel", "verbose">>, <<"historyRetentionDays", "90">>,
                  <<"historyRetentionDays", "0">>, <<"historyRetentionDays", "soon">>,
                  <<"version", "2.0.0">>} : ConfigSetCommand(kv[1], kv[2])

StoreSpec == StoreSpecInit /\ [][StoreSpecNext]_vars

(***************************************************************************)
(* CommandSpec: buildCommand applied to every combination of its options   *)
(***************************************************************************)

\* nothing has been called and the store holds the seed profiles only
AllIdle == EmptyStore /\ RunIdle /\ ParseIdle /\ XIdle

\* this.buildCommand(options)
BuildCommand(options) ==
    /\ bArgs = <<>>
    /\ bOptions' = options
    /\ bArgs' = buildCommand(options)
    /\ UNCHANGED <<rPc, rPath, rClock, rFiles, eVar, pmDir, usedDir>>
    /\ UNCHANGED <<mainVars, pvars, tvars, hvars, mvars>>

CommandNext ==
    \E options \in [playbook : {"", "site.yml"}, host : {"h1"}, user : {"root"},
                    port : {0, 22, 2222}, sshKey : {"", "id_ed25519"},
                    tags : {<<>>, <<"docker">>, <<"docker", "bun">>},
                    skipTags : {<<>>, <<"nvm">>}, check : BOOLEAN, verbose : BOOLEAN,
                    configFile : {"", "provision_a_0.yml"}] :
        BuildCommand(options)

CommandSpec == AllIdle /\ [][CommandNext]_vars

(***************************************************************************)
(* RunnerSpec: two calls of AnsibleRunner.run that may overlap             *)
(***************************************************************************)

\* run up to its await: the path is made of the server's name and the
\* clock, the variables file is written there and the tool is spawned with
\* -e @<path> (part_003 lines 148-186)
RunBegins(i, name) ==
    /\ rPc[i] = "idle"
    /\ LET path == ConfigFilePath(name, rClock)
       IN  /\ rPath' = [rPath EXCEPT ![i] = path]
           /\ rFiles' = {f \in rFiles : f.path # path} \cup {[path |-> path, by |-> i]}
    /\ rPc' = [rPc EXCEPT ![i] = "running"]
    /\ UNCHANGED <<rClock, bOptions, bArgs, eVar, pmDir, usedDir>>
    /\ UNCHANGED <<mainVars, pvars, tvars, hvars, mvars>>

\* the tool has ended; the finally block removes the file at the path
\* (part_003 lines 211-216)
RunEnds(i) ==
    /\ rPc[i] = "running"
    /\ rFiles' = {f \in rFiles : f.path # rPath[i]}
    /\ rPc' = [rPc EXCEPT ![i] = "done"]
    /\ UNCHANGED <<rPath, rClock, bOptions, bArgs, eVar, pmDir, usedDir>>
    /\ UNCHANGED <<mainVars, pvars, tvars, hvars, mvars>>

\* a millisecond passes
Tick ==
    /\ rClock < MaxClock
    /\ rClock' = rClock + 1
    /\ UNCHANGED <<rPc, rPath, rFiles, bOptions, bArgs, eVar, pmDir, usedDir>>
    /\ UNCHANGED <<mainVars, pvars, tvars, hvars, mvars>>

RunnerNext ==
    \/ \E i \in 1..2, name \in Names : RunBegins(i, name)
    \/ \E i \in 1..2 : RunEnds(i)
    \/ Tick

RunnerSpec == AllIdle /\ [][RunnerNext]_vars

(***************************************************************************)
(* DirSpec: the base directory of the store, from the start of the process *)
(***************************************************************************)

\* main up to the construction of the store: the process starts with the
\* variable as the shell left it; `process.env.VPS_SETUP_CONFIG_DIR ||
\* undefined` and the default of the constructor's parameter give the
\* default directory for an unset and for an empty variable
\* (ssh.ts lines 191-194, part_004 lines 17, 35-37)
Construct(env) ==
    /\ pmDir = "(none)"
    /\ eVar' = env
    /\ pmDir' = IF env = "(unset)" \/ env = "" THEN "~/.config/vps-setup" ELSE env
    /\ UNCHANGED <<usedDir, bOptions, bArgs, rPc, rPath, rClock, rFiles>>
    /\ UNCHANGED <<mainVars, pvars, tvars, hvars, mvars>>

SetConfigDir_Repoints(path) ==
    /\ pmDir # "(none)"
    /\ usedDir.op = "none"
    /\ eVar' = path
    /\ pmDir' = path
    /\ UNCHANGED <<usedDir, bOptions, bArgs, rPc, rPath, rClock, rFiles>>
    /\ UNCHANGED <<mainVars, pvars, tvars, hvars, mvars>>

\* the preAction hook of --config-dir <path>: it runs when the command line
\* is parsed, after the store was constructed and before the command's
\* action (ssh.ts lines 176-188)
SetConfigDir(path) ==
    /\ pmDir # "(none)"
    /\ usedDir.op = "none"
    /\ eVar' = path
    /\ UNCHANGED <<pmDir, usedDir, bOptions, bArgs, rPc, rPath, rClock, rFiles>>
    /\ UNCHANGED <<mainVars, pvars, tvars, hvars, mvars>>

\* an operation of the store: its paths are join(this.configDir, ...)
StoreOperation(op) ==
    /\ pmDir # "(none)"
    /\ usedDir' = [op |-> op, dir |-> pmDir]
    /\ UNCHANGED <<eVar, pmDir, bOptions, bArgs, rPc, rPath, rClock, rFiles>>
    /\ UNCHANGED <<mainVars, pvars, tvars, hvars, mvars>>

DirNext ==
    \/ \E env \in {"(unset)", "", "/alt", "/srv"} : Construct(env)
    \/ \E path \in {"/alt", "/srv", "/other"} : SetConfigDir(path)
    \/ \E op \in {"initialize", "getConfig", "saveConfig", "saveServer", "getServer",
                  "listServers", "deleteServer", "saveProfile", "getProfile",
                  "listProfiles", "deleteProfile", "appendHistory", "getHistory",
                  "clearHistory"} : StoreOperation(op)

DirSpec == AllIdle /\ [][DirNext]_vars

(***************************************************************************)
(* Spec: the setup command against the store                               *)
(***************************************************************************)

Init ==
    /\ StoreInit
    /\ RunIdle
    /\ ParseIdle
    /\ XIdle

Next ==
    \/ \E name \in Names, profile \in ProfileArgs, dryRun \in BOOLEAN, inst \in BOOLEAN, pb \in BOOLEAN :
            StartSingle(name, profile, dryRun, inst, pb)
    \/ ProbeFails
    \/ ProbeSucceeds
    \/ \E partial \in BOOLEAN : ConfigWriteFails(partial)
    \/ \E spawnOk \in BOOLEAN : ConfigSpawn(spawnOk)
    \/ \E oc \in {"exit0", "nonzero", "timeout", "spawnfail", "writefail"},
          stdout \in ToolOutputs : ToolEnds(oc, stdout)
    \/ RecordSingle
    \/ \E profile \in ProfileArgs \cup {NoProfile}, dryRun \in BOOLEAN, inst \in BOOLEAN, pb \in BOOLEAN :
            StartFleet(profile, dryRun, inst, pb)
    \/ FleetSkip
    \/ FleetBegin
    \/ RecordFleet
    \/ FleetFinish
    \/ NextInvocation
    \/ \E name \in Names : AddServer(name)
    \/ \E name \in Names : EditServer(name)
    \/ \E name \in Names : DeleteServer(name)
    \/ \E name \in Names : ClearHistory(name)
    \/ \E name \in Names : DamageFile(name)

Spec == Init /\ [][Next]_vars

(***************************************************************************)
(* Properties of parseOutput (checked under ParseSpec)                     *)
(***************************************************************************)

\* the value of the first "<f>=<digits>" of the recap section, 0 when the
\* section has none
SectionValue(o, f) ==
    LET carrying == SelectSeq(recapMatch(o), LAMBDA l : l.k = "host" /\ l[f] # NA)
    IN  IF carrying = <<>> THEN 0 ELSE Head(carrying)[f]

HasRecap(o) == \E i \in 1..Len(o) : MarkerAt(o, i)

\* C9: parseOutput returns success = true exactly when the text has the
\* recap section and the section's failed and unreachable counters are both
\* 0 (a missing counter counts as 0), whatever ok and changed are; on a text
\* without the recap marker it returns success = false and four zeros; it
\* never raises.
C9_ParseVerdict ==
    pResult # NoResult =>
        /\ ~pRaised
        /\ pResult.success <=>
              (HasRecap(pText) /\ SectionValue(pText, "failed") = 0
                               /\ SectionValue(pText, "unreachable") = 0)
        /\ ~HasRecap(pText) => pResult = ZeroResult

\* C9 witness: a recap with no change and no ok counter is parsed as success
C9_Witness ==
    /\ pResult # NoResult
    /\ HasRecap(pText)
    /\ pResult.success
    /\ pResult.changed = 0
    /\ pResult.ok = 0

(***************************************************************************)
(* Properties of the setup command (checked under Spec)                    *)
(***************************************************************************)

RunEnded == pc \in {"Done", "Failed"}

LastEntry(h, name) == h[name][Len(h[name])]

\* the step in which provisionServer or the fleet loop records a run
RecordStep == pc = "Recording" /\ pc' # "Recording"

\* C1: a fleet run over the names listServers returned appends exactly one
\* HistoryEntry for each of them, whichever of them fail or are unreadable.
C1_FleetRecordsEveryServer ==
    (mode = "fleet" /\ pc = "Done") =>
        \A i \in 1..Len(queue) : runAppends[queue[i]] = 1

\* C2: when the connectivity probe fails, the tool is not spawned, the
\* Server record is unchanged, and one HistoryEntry with status failed and
\* changes 0 is appended before the run ends.
C2_ProbeFailureRecorded ==
    (pc = "Failed" /\ exitReason = "ssh") =>
        /\ spawned = 0
        /\ servers[cur] = snap
        /\ runAppends[cur] = 1
        /\ history[cur] # <<>>
        /\ LastEntry(history, cur).status = "failed"
        /\ LastEntry(history, cur).changes = 0

\* C3: when ansible-playbook is not discoverable or the playbook is missing,
\* a run (single or inside a fleet run) spawns nothing and appends no
\* HistoryEntry.
C3_NoToolNothingAttempted ==
    (~toolInstalled \/ ~playbookPresent) =>
        /\ spawned = 0
        /\ \A n \in Names : runAppends[n] = 0

\* C4: every run that reaches Executing appends exactly one HistoryEntry for
\* its server before it ends, whatever the outcome of the execution.
C4_ExecutedRunRecorded ==
    \A n \in executed :
        IF pc \in {"Executing", "Recording"} /\ cur = n
        THEN runAppends[n] = 0
        ELSE runAppends[n] = 1

\* C4 witness: a run whose tool was killed at the timeout has ended with its
\* one entry written
C4_Witness ==
    /\ RunEnded
    /\ outcome = "timeout"
    /\ cur \in executed
    /\ runAppends[cur] = 1
    /\ history[cur] # <<>>
    /\ LastEntry(history, cur).status = "failed"

\* C5: a step gives a server a lastProvisioned it did not have only as the
\* recording of a run on that server whose result has success = true; every
\* other step of a run leaves lastProvisioned as it was, and a server the
\* operator adds has none.
C5_LastProvisionedOnlyOnSuccess ==
    [][\A n \in Names :
          servers'[n].lastProvisioned # servers[n].lastProvisioned =>
             \/ /\ pc = "Recording" /\ cur = n /\ result.success
                /\ servers'[n].lastProvisioned = now
             \/ /\ ops' # ops
                /\ servers'[n].lastProvisioned = NoTime]_vars

\* C5 witness: a failed run on a server provisioned at time 0 has ended and
\* the server still carries time 0
C5_Witness ==
    /\ pc = "Failed"
    /\ exitReason = "run-failed"
    /\ servers[cur].st = "ok"
    /\ servers[cur].lastProvisioned = 0
    /\ now > 0

\* C6 as stated: a recap with failed=0 and unreachable=0 gives success =
\* true whether the process exited zero or non-zero.
C6_VerdictWhateverExitCode ==
    (pc = "Recording" /\ outcome \in {"exit0", "nonzero"}
        /\ parseOutput(result.output).success) => result.success

\* C6 amended: for a process that exited with code zero the result and the
\* recorded status are the parser's verdict on stdout; for a process that
\* exited non-zero the result is success = false and the status is failed,
\* whatever the recap says.
C6_VerdictOnZeroExit ==
    [][RecordStep =>
          LET verdict == parseOutput(result.output).success
              e == LastEntry(history', cur)
          IN  /\ outcome = "exit0" =>
                    /\ result.success = verdict
                    /\ (e.status \in {"success", "dry-run"}) = verdict
                    /\ (e.status = "failed") = ~verdict
              /\ outcome = "nonzero" =>
                    /\ ~result.success
                    /\ e.status = "failed"]_vars

\* C6 witness: the tool exited non-zero with a clean recap and run returned
\* success = false
C6_Witness ==
    /\ pc = "Recording"
    /\ outcome = "nonzero"
    /\ parseOutput(result.output).success
    /\ ~result.success

\* C7: after a spawn failure, a non-zero exit or the timeout, run returns
\* success = false with the counters parseOutput extracts from the captured
\* stdout, and the HistoryEntry has status failed and that changed count.
C7_FailedExecutionCounts ==
    [][(RecordStep /\ outcome \in {"spawnfail", "nonzero", "timeout"}) =>
          LET parsed == parseOutput(result.output)
              e == LastEntry(history', cur)
          IN  /\ ~result.success
              /\ result.ok = parsed.ok
              /\ result.changed = parsed.changed
              /\ result.unreachable = parsed.unreachable
              /\ result.failed = parsed.failed
              /\ Len(history'[cur]) = Len(history[cur]) + 1
              /\ e.status = "failed"
              /\ e.changes = parsed.changed]_vars

\* C7 witness: the tool was killed at the timeout after it had printed a
\* recap with changed=1
C7_Witness ==
    /\ pc = "Recording"
    /\ outcome = "timeout"
    /\ ~result.success
    /\ result.changed = 1

\* C8: once run has ended, by any path, the variables file it created does
\* not exist.
C8_VariablesFileRemoved ==
    /\ pc # "Executing" => tmpFiles = {}
    /\ pc = "Recording" => (configFile # NoPath /\ configFile \notin tmpFiles)

\* C8 witness: run has returned after a timeout
C8_Witness ==
    /\ pc = "Recording"
    /\ outcome = "timeout"
    /\ configFile.name = cur
    /\ configFile \notin tmpFiles

\* C10: a history log exists only for a name that has a server record.
C10_HistoryOnlyForServers ==
    \A n \in Names : history[n] # <<>> => serverExists(n)

\* C17: in every step each server's log stays as it is, or grows by exactly
\* one entry placed after the earlier entries, which are unchanged, or
\* becomes empty as a whole; a step that appends to one server's log leaves
\* every other server's log unchanged.
C17_LogAppendOnly ==
    [][/\ \A n \in Names :
            \/ history'[n] = history[n]
            \/ /\ Len(history'[n]) = Len(history[n]) + 1
               /\ SubSeq(history'[n], 1, Len(history[n])) = history[n]
            \/ history'[n] = <<>>
       /\ \A n \in Names :
            Len(history'[n]) > Len(history[n]) =>
                \A m \in Names \ {n} : history'[m] = history[m]]_vars

\* C17 witness: a run has appended its entry after the entry of an earlier
\* run, while the other server has a log of its own
C17_Witness ==
    /\ RunEnded
    /\ cur \in Names
    /\ runAppends[cur] = 1
    /\ Len(history[cur]) = 2
    /\ history[cur][1].timestamp = 0
    /\ \E m \in Names \ {cur} : history[m] # <<>>

(***************************************************************************)
(* Properties of the --tags argument (checked under TagsSpec)              *)
(***************************************************************************)

\* C20: generateTags returns the names of the enabled components, each
\* once, in the order docker, php_fpm, caddy, nodejs, nvm, bun, security; a
\* run whose caller gives no tags passes that list as the value of --tags,
\* and a run whose caller gives tags passes the caller's list.
C20_TagsArgument ==
    LET order == <<"docker", "php_fpm", "caddy", "nodejs", "nvm", "bun", "security">>
        PlaceOf(n) == CHOOSE i \in 1..Len(order) : order[i] = n
    IN
    tArgs # NoArgs =>
        /\ \A n \in ComponentNames :
              Cardinality({i \in 1..Len(tTags) : tTags[i] = n}) = IF tComponents[n] THEN 1 ELSE 0
        /\ \A i \in 1..Len(tTags) : tTags[i] \in ComponentNames
        /\ \A i, j \in 1..Len(tTags) : i < j => PlaceOf(tTags[i]) < PlaceOf(tTags[j])
        /\ tRunTags = Undefined => tArgs = <<"--tags", tTags>>
        /\ tRunTags # Undefined => tArgs = <<"--tags", tRunTags>>

\* C20 witness: a profile with docker, nvm and security, run without tags
C20_Witness ==
    /\ tArgs = <<"--tags", <<"docker", "nvm", "security">>>>
    /\ tRunTags = Undefined
    /\ tOption = NoOption

(***************************************************************************)
(* Properties of getHistory (checked under HistorySpec)                    *)
(***************************************************************************)

\* C16: for a log with n parsable entries and a limit k >= 0 the result has
\* min(k, n) entries, with no limit it has all n; the entries returned are
\* entries of the log, none of those left out is more recent than one
\* returned, and they are ordered by timestamp descending; unparsable lines
\* are skipped and nothing is raised.
C16_GetHistoryLimit ==
    hResult # NotCalled =>
        LET all == ParsedEntries(hLog)
            n == Len(all)
            Occurrences(seq, e) == Cardinality({i \in 1..Len(seq) : seq[i] = e})
        IN  /\ ~hRaised
            /\ Len(hResult) = IF hLimit = NoLimit THEN n
                              ELSE IF hLimit < n THEN hLimit ELSE n
            /\ \A i \in 1..Len(hResult) : Occurrences(hResult, hResult[i]) <= Occurrences(all, hResult[i])
            /\ \A i \in 1..Len(hResult) : \A e \in LogLines :
                  Occurrences(hResult, e) < Occurrences(all, e) => e.timestamp <= hResult[i].timestamp
            /\ \A i, j \in 1..Len(hResult) : i < j => hResult[i].timestamp >= hResult[j].timestamp

(***************************************************************************)
(* Properties of the store's operations (checked under StoreSpec)          *)
(***************************************************************************)

\* an operation has just been carried out, and it is `op`
Did(op) == mCalls' # mCalls /\ mCall'.op = op

\* the rules of a Server record that the record breaks
ServerRules(server) ==
    LET rules == {<<"Server name is required", server.name # "">>,
     <<"Server name must be 64 characters or less", StrLen(server.name) <= 64>>,
     <<"Server name can only contain letters", NamePattern(server.name)>>,
     <<"Invalid host", validateHost(server.host)>>,
     <<"port min 1", server.port >= 1>>,
     <<"port max 65535", server.port <= 65535>>,
     <<"tags max 100", server.tags.count <= 100>>,
     <<"tag max 50", server.tags.longest <= 50>>,
     <<"notes max 1000", StrLen(server.notes) <= 1000>>}
    IN  {r[1] : r \in {x \in rules : ~x[2]}}

\* the rules of a Profile record that the record breaks
ProfileRules(profile) ==
    LET rules == {<<"Profile name is required", profile.name # "">>,
     <<"Profile name must be 64 characters or less", StrLen(profile.name) <= 64>>,
     <<"Profile name can only contain letters", NamePattern(profile.name)>>,
     <<"Runtime user is required", profile.runtimeUser # "">>,
     <<"At least one component must be enabled",
       profile.components # DEFAULT_COMPONENTS>>}
    IN  {r[1] : r \in {x \in rules : ~x[2]}}

\* C11: saveServer and saveProfile called with a record that violates one
\* or more schema rules raise an error that lists every violated rule, and
\* leave every file of the store as it was.
C11_InvalidSaveRejected ==
    [][/\ Did("saveServer") =>
            LET violated == ServerRules(mCall'.arg)
            IN  violated # {} =>
                    /\ mCall'.error = "invalid"
                    /\ violated \subseteq mCall'.raised
                    /\ UNCHANGED fileVars
       /\ Did("saveProfile") =>
            LET violated == ProfileRules(mCall'.arg)
            IN  violated # {} =>
                    /\ mCall'.error = "invalid"
                    /\ violated \subseteq mCall'.raised
                    /\ UNCHANGED fileVars]_vars

\* C11 witness: saveServer has refused a record that breaks the rules of
\* name, host, port, tags and notes at once, and named them all
C11_Witness ==
    /\ mCall.op = "saveServer"
    /\ mCall.error = "invalid"
    /\ mCall.arg.name = ""
    /\ {"Server name is required", "Invalid host", "port min 1", "tags max 100",
        "tag max 50", "notes max 1000"} \subseteq mCall.raised
    /\ mCall.wrote = {}
    /\ mServers["a"] = ServerA

\* C12: a server record that carries a createdAt keeps it in every step
\* that leaves a record under the name: saveServer calls, server edit and
\* provisioning runs, also when the input of saveServer carries another
\* createdAt or none.
C12_CreatedAtKept ==
    [][\A n \in Names :
          (readServer(mServers, n) # Null /\ mServers'[n].kind = "data") =>
              mServers'[n].createdAt = mServers[n].createdAt]_vars

\* C13: initialize leaves every existing config.yml, profile file, server
\* file and history log as it is, creates config.yml and each of the three
\* seed profiles only where there is no file, and applied again changes
\* nothing.
C13_InitializeIdempotent ==
    [][Did("initialize") =>
          /\ mConfig # NoFile => mConfig' = mConfig
          /\ mConfig = NoFile => mConfig' = DEFAULT_CONFIG
          /\ \A n \in ProfNames :
                /\ mProfiles[n] # NoFile => mProfiles'[n] = mProfiles[n]
                /\ mProfiles[n] = NoFile =>
                      mProfiles'[n] = IF n \in SeedNames THEN SeedProfile(n) ELSE NoFile
          /\ UNCHANGED <<mServers, mHistory>>
          /\ initialize(mConfig', mProfiles') = [config |-> mConfig', profiles |-> mProfiles']]_vars

\* C13 witness: initialize has created full-stack next to a corrupt
\* minimal and an edited config.yml, which it left alone
C13_Witness ==
    /\ mCall.op = "initialize"
    /\ mCall.wrote = {<<"profiles", "full-stack">>, <<"profiles", "security-only">>}
    /\ mProfiles["minimal"] = GarbageFile
    /\ mConfig = EditedConfig

\* C14: duplicateProfile(src, dst) fails with not-found when src is absent
\* (getProfile gives null) and with already-exists when src is present and
\* dst is present, dst = src included; in both cases no file is created,
\* changed or removed.
C14_DuplicateFailures ==
    [][Did("duplicateProfile") =>
          LET src == mCall'.arg.name
              dst == mCall'.name
          IN  /\ readProfile(mProfiles, src) = Null =>
                    /\ mCall'.error = "not-found"
                    /\ UNCHANGED fileVars
              /\ (readProfile(mProfiles, src) # Null /\ fileExists(mProfiles, dst)) =>
                    /\ mCall'.error = "already-exists"
                    /\ UNCHANGED fileVars]_vars

\* C14 witness: a profile was duplicated onto itself and refused
C14_Witness ==
    /\ mCall.op = "duplicateProfile"
    /\ mCall.error = "already-exists"
    /\ mCall.arg.name = mCall.name
    /\ mCall.wrote = {}

\* C15: a successful duplicateProfile(src, dst) creates a profile dst with
\* the components, runtimeUser and overrides of src and the name dst, and
\* leaves src and every other profile, server, config and history file
\* unchanged.
C15_DuplicateCopies ==
    [][(Did("duplicateProfile") /\ mCall'.error = "none") =>
          LET src == mCall'.arg.name
              dst == mCall'.name
              made == readProfile(mProfiles', dst)
          IN  /\ made # Null
              /\ made.name = dst
              /\ made.components = mProfiles[src].components
              /\ made.runtimeUser = mProfiles[src].runtimeUser
              /\ made.overrides = mProfiles[src].overrides
              /\ \A n \in ProfNames \ {dst} : mProfiles'[n] = mProfiles[n]
              /\ UNCHANGED <<mConfig, mServers, mHistory>>]_vars

\* C15 witness: the edited minimal profile was copied to custom with its
\* overrides
C15_Witness ==
    /\ mCall.op = "duplicateProfile"
    /\ mCall.error = "none"
    /\ mCall.arg.name = "minimal"
    /\ mCall.wrote = {<<"profiles", "custom">>}
    /\ mProfiles["custom"].overrides = "php_version: 8.3"
    /\ mProfiles["minimal"] = EditedMinimal

\* a file that exists and that getServer, or getProfile, rejects
CorruptServer(file) == file = GarbageFile \/ (file.kind = "data" /\ parseServer(file) # {})

CorruptProfile(file) == file = GarbageFile \/ (file.kind = "data" /\ parseProfile(file) # {})

\* C18: for a server or profile file that exists and is malformed or
\* schema-invalid, getServer/getProfile return null, listServers and
\* listProfiles contain the name, and creating a server or a profile under
\* the name (server add, profile create, duplicateProfile) is refused and
\* leaves the file as it is.
C18_CorruptFileKeepsName ==
    /\ [](\A n \in Names : CorruptServer(mServers[n]) =>
              (readServer(mServers, n) = Null /\ n \in listNames(mServers)))
    /\ [](\A n \in ProfNames : CorruptProfile(mProfiles[n]) =>
              (readProfile(mProfiles, n) = Null /\ n \in listNames(mProfiles)))
    /\ [][/\ (Did("server add") /\ CorruptServer(mServers[mCall'.name])) =>
               (mCall'.error = "already-exists" /\ UNCHANGED fileVars)
          /\ ((Did("profile create") \/ Did("duplicateProfile"))
                /\ mCall'.name \in ProfNames /\ CorruptProfile(mProfiles[mCall'.name])) =>
               (mCall'.error \in {"already-exists", "not-found"} /\ UNCHANGED fileVars)]_vars

\* C18 witness: server add was refused on a name whose file is not YAML
C18_Witness ==
    /\ mCall.op = "server add"
    /\ mCall.error = "already-exists"
    /\ mServers[mCall.name] = GarbageFile
    /\ readServer(mServers, mCall.name) = Null

\* C19: a Profile with every toggle false is rejected by profile create,
\* by profile edit and by saveProfile, no file is written for it and an
\* existing profile keeps its content; no profile getProfile returns has
\* every toggle false.
C19_NoProfileWithoutComponent ==
    /\ [](\A n \in ProfNames :
              readProfile(mProfiles, n) # Null =>
                  \E c \in ComponentNames : readProfile(mProfiles, n).components[c])
    /\ [][((Did("profile create") \/ Did("profile edit") \/ Did("saveProfile"))
             /\ mCall'.arg # Null /\ mCall'.arg.components = DEFAULT_COMPONENTS) =>
               (mCall'.error # "none" /\ UNCHANGED fileVars)]_vars

\* C19 witness: profile edit with nothing selected was refused and the seed
\* profile is as it was
C19_Witness ==
    /\ mCall.op = "profile edit"
    /\ mCall.error = "no-component"
    /\ mCall.name = "minimal"
    /\ mProfiles["minimal"] = SeedProfile("minimal")

(***************************************************************************)
(* Properties of buildCommand (checked under CommandSpec)                  *)
(***************************************************************************)

\* C21: the arguments buildCommand returns are, in this order: the playbook
\* given, or else playbooks/provision.yml under the root; -i and the host
\* followed by a comma; -u and the user; --ssh-common-args and its value
\* only when the port is set and is not 22 or an identity file is set;
\* --tags and the tags only when tags are given; --skip-tags and the tags to
\* skip only when some are given; --check --diff only in a dry run; -v only
\* when verbose; -e and @<file> only when a variables file is given.  The
\* arguments are a function of the options alone.
C21_BuildCommandArguments ==
    bArgs # <<>> =>
        LET o == bOptions
            ssh == (o.port # 0 /\ o.port # 22) \/ o.sshKey # ""
        IN  /\ Len(bArgs) >= 5
            /\ ssh => Len(bArgs) >= 7
            /\ bArgs =
                <<IF o.playbook # "" THEN <<o.playbook>>
                  ELSE <<"ansiblePath", "playbooks", "provision.yml">>>> \o
                <<<<"-i">>, <<o.host, ",">>, <<"-u">>, <<o.user>>>> \o
                (IF ssh /\ Len(bArgs) >= 7 THEN <<<<"--ssh-common-args">>, bArgs[7]>> ELSE <<>>) \o
                (IF o.tags # <<>> THEN <<<<"--tags">>, o.tags>> ELSE <<>>) \o
                (IF o.skipTags # <<>> THEN <<<<"--skip-tags">>, o.skipTags>> ELSE <<>>) \o
                (IF o.check THEN <<<<"--check">>, <<"--diff">>>> ELSE <<>>) \o
                (IF o.verbose THEN <<<<"-v">>>> ELSE <<>>) \o
                (IF o.configFile # "" THEN <<<<"-e">>, <<"@", o.configFile>>>> ELSE <<>>)

\* C21 witness: a dry run on port 2222 with tags, tags to skip and a
\* variables file, without -v
C21_Witness ==
    /\ Len(bArgs) = 15
    /\ bOptions.port = 2222
    /\ bOptions.check
    /\ ~bOptions.verbose

(***************************************************************************)
(* Properties of the stages of a run (checked under Spec)                  *)
(***************************************************************************)

\* C22: the run of a server, alone or inside a fleet run, enters each stage
\* from the stage before it: Probing from Idle, Configuring from Probing
\* (the probe has succeeded), Executing from Configuring, Recording from
\* Executing, or from Configuring when the variables file cannot be written
\* and nothing is executed.  The tool is spawned in Configuring only, and
\* the run appends to a history log in Recording only, when the tool is no
\* longer running.
C22_StagesInOrder ==
    [][/\ (pc' = "Probing" /\ pc # "Probing") => pc = "Idle"
       /\ (pc' = "Configuring" /\ pc # "Configuring") => pc = "Probing"
       /\ (pc' = "Executing" /\ pc # "Executing") => pc = "Configuring"
       /\ (pc' = "Recording" /\ pc # "Recording") => pc \in {"Configuring", "Executing"}
       /\ spawned' > spawned => pc = "Configuring"
       /\ runAppends' # runAppends /\ runAppends' # NoAppends => pc = "Recording" /\ ~running
      ]_vars

\* C23: in a fleet run the tool is spawned only while no tool is running,
\* one process at a time; the run of a server begins only when no tool is
\* running, it is the run of the next name of the list listServers returned,
\* and every run begun before it has its result in the result list and its
\* entry in the history log; the results are in the order of that list.
C23_FleetSequential ==
    [][mode' = "fleet" =>
        /\ spawned' > spawned => ~running /\ spawned' = spawned + 1
        /\ running => pc = "Executing"
        /\ (pc = "Loop" /\ pc' = "Configuring") =>
              /\ ~running
              /\ cur' = queue[idx]
              /\ \A j \in 1..Len(results) :
                    /\ \E k \in 1..(idx - 1) : queue[k] = results[j].server
                    /\ runAppends[results[j].server] >= 1
        /\ idx' # idx => idx' = idx + 1 \/ pc = "Idle"
        /\ (pc = "Recording" /\ pc' # "Recording") =>
              /\ results' = Append(results, [server |-> cur, success |-> result.success])
              /\ cur = queue[idx]
              /\ runAppends'[cur] = runAppends[cur] + 1
              /\ idx' = idx + 1
        /\ \A i, j \in 1..Len(results') :
              i < j => \E k, l \in 1..Len(queue') :
                          k < l /\ queue'[k] = results'[i].server /\ queue'[l] = results'[j].server
      ]_vars

\* C23 witness: the run of the second server of a fleet run begins after the
\* first one failed and was recorded
C23_Witness ==
    /\ mode = "fleet"
    /\ pc = "Configuring"
    /\ idx = 2
    /\ cur = "b"
    /\ Len(results) = 1
    /\ ~results[1].success
    /\ runAppends["a"] = 1

\* C24: when a run writes the record of its server over a stored record,
\* the record written differs from the stored one in lastProvisioned only.
C24_RunWritesTimestampOnly ==
    [][(pc = "Recording" /\ servers'[cur] # servers[cur] /\ servers[cur].st = "ok") =>
            servers'[cur] = [servers[cur] EXCEPT !.lastProvisioned = servers'[cur].lastProvisioned]
      ]_vars

(***************************************************************************)
(* Properties of the variables file (checked under RunnerSpec)             *)
(***************************************************************************)

\* C25: two calls of run that are both between the writing of their
\* variables file and its removal have different paths, and the file of
\* each is in place, as that call wrote it.
C25_PathsDistinct ==
    \A i, j \in 1..2 :
        (i # j /\ rPc[i] = "running" /\ rPc[j] = "running") =>
            /\ rPath[i] # rPath[j]
            /\ [path |-> rPath[i], by |-> i] \in rFiles

(***************************************************************************)
(* Properties of the base directory (checked under DirSpec)                *)
(***************************************************************************)

C27_FleetResultList ==
    [][/\ (pc = "Recording" /\ mode = "fleet" /\ pc' = "Loop") =>
              /\ Len(results') = Len(results) + 1
              /\ results'[Len(results')].server = cur
              /\ Len(history'[cur]) = Len(history[cur]) + 1
              /\ results'[Len(results')].success <=>
                     LastEntry(history', cur).status = "success"
       /\ (pc = "Loop" /\ pc' = "Done") =>
              [i \in 1..Len(results') |-> results'[i].server] = queue'
      ]_vars

\* C28: the HistoryEntry a run appends has status dry-run when the run was
\* started with the dry-run flag and its result is a success, and never has
\* status dry-run when the run was started without the flag; in a
\* single-server run and in a fleet run alike.
C28_DryRunStatus ==
    [][(RecordStep /\ Len(history'[cur]) = Len(history[cur]) + 1) =>
           LET entry == LastEntry(history', cur)
           IN  /\ (dry /\ result.success) => entry.status = "dry-run"
               /\ ~dry => entry.status # "dry-run"
      ]_vars

(***************************************************************************)
(* Properties of the configuration (checked under StoreSpec)               *)
(***************************************************************************)

\* C29: after config set has updated a key with a value it accepted,
\* getConfig returns that value for the key and, for every other key, what
\* getConfig returned before the update.
C29_UpdateThenGet ==
    [][(Did("config set") /\ mCall'.error = "none") =>
           LET was == getConfig(mConfig)
               is == getConfig(mConfig')
               key == mCall'.name
           IN  /\ is[key] = mCall'.arg.value
               /\ \A k \in DOMAIN was \ {key} : is[k] = was[k]
      ]_vars

\* C30: initialize, profile create, profile delete, profile duplicate and
\* config set, applied to a store that has a config.yml whose defaultProfile
\* names a profile of the store, leave a store of which the same is true.
C30_DefaultProfileExists ==
    [][(/\ mCalls' # mCalls
        /\ mCall'.op \in {"initialize", "profile create", "profile delete",
                          "duplicateProfile", "config set"}
        /\ mConfig.kind = "data"
        /\ fileExists(mProfiles, getConfig(mConfig).defaultProfile)) =>
           fileExists(mProfiles', getConfig(mConfig').defaultProfile)
      ]_vars

====
